---- MODULE Spec2Model ----
(***************************************************************************)
(* The line-oriented Parrot compilers (compiler/linux, compiler/windows):  *)
(* class ParrotCompiler and the driver that runs lex, parse,               *)
(* semantic_check, generate_ir, optimize and generate_asm in that order.   *)
(*                                                                         *)
(* Text is modelled character by character: a character is a one-character *)
(* string, a line is a sequence of characters without its line end, and a  *)
(* source text is the sequence of its lines.  The text the backend emits   *)
(* is built with string concatenation, so an emitted line is the string    *)
(* the Python f-string produces.                                           *)
(***************************************************************************)
EXTENDS Integers, Sequences, FiniteSets, TLC

(***************************************************************************)
(* Bounds of the model.                                                    *)
(***************************************************************************)
MaxLines == 4
MaxEmitLines == 3
MaxRuns == 2
MaxEmits == 2
MaxOperandLines == 2

MaxBackendLines == 2

(***************************************************************************)
(* Python str and list primitives used by the compilers.                   *)
(***************************************************************************)
IsSpace(c) == c \in {" ", "\t"}

RECURSIVE LStrip(_)
LStrip(s) ==
    IF s = <<>> THEN <<>>
    ELSE IF IsSpace(Head(s)) THEN LStrip(Tail(s)) ELSE s

RECURSIVE RStrip(_)
RStrip(s) ==
    IF s = <<>> THEN <<>>
    ELSE IF IsSpace(s[Len(s)]) THEN RStrip(SubSeq(s, 1, Len(s) - 1)) ELSE s

Strip(s) == RStrip(LStrip(s))

RECURSIVE LStripCh(_, _)
LStripCh(s, c) ==
    IF s = <<>> THEN <<>>
    ELSE IF Head(s) = c THEN LStripCh(Tail(s), c) ELSE s

RECURSIVE RStripCh(_, _)
RStripCh(s, c) ==
    IF s = <<>> THEN <<>>
    ELSE IF s[Len(s)] = c THEN RStripCh(SubSeq(s, 1, Len(s) - 1), c) ELSE s

StripCh(s, c) == RStripCh(LStripCh(s, c), c)

StartsWith(s, p) == Len(s) >= Len(p) /\ SubSeq(s, 1, Len(p)) = p

\* str.split(): the maximal runs of non-blank characters, in order.
RECURSIVE SplitFrom(_, _, _)
SplitFrom(s, word, acc) ==
    IF s = <<>> THEN (IF word = <<>> THEN acc ELSE Append(acc, word))
    ELSE IF IsSpace(Head(s))
         THEN SplitFrom(Tail(s), <<>>, IF word = <<>> THEN acc ELSE Append(acc, word))
         ELSE SplitFrom(Tail(s), Append(word, Head(s)), acc)

Split(s) == SplitFrom(s, <<>>, <<>>)

\* " ".join(words)
RECURSIVE JoinSp(_)
JoinSp(words) ==
    IF words = <<>> THEN <<>>
    ELSE IF Len(words) = 1 THEN words[1]
    ELSE words[1] \o <<" ">> \o JoinSp(Tail(words))

\* The Python str made of the characters cs.
RECURSIVE Str(_)
Str(cs) == IF cs = <<>> THEN "" ELSE Head(cs) \o Str(Tail(cs))

\* "\n".join(lines)
RECURSIVE JoinNl(_)
JoinNl(lines) ==
    IF lines = <<>> THEN ""
    ELSE IF Len(lines) = 1 THEN lines[1]
    ELSE lines[1] \o "\n" \o JoinNl(Tail(lines))

\* dict[k] = v
Put(d, k, v) == [x \in (DOMAIN d) \cup {k} |-> IF x = k THEN v ELSE d[x]]

EmptyDict == [x \in {} |-> 0]

\* list.insert(i, x) for 0 <= i <= len(list)
Insert(list, i, x) == SubSeq(list, 1, i) \o <<x>> \o SubSeq(list, i + 1, Len(list))

(***************************************************************************)
(* An instruction node {"instr": ..., "args": [...]}: the opcode word and  *)
(* the operand words, each a sequence of characters.                       *)
(***************************************************************************)
Node(instr, args) == [instr |-> instr, args |-> args]

Is(word, name) == Str(word) = name

(***************************************************************************)
(* Phase 1, lex: the non-blank lines that are not `:>` comments, each      *)
(* without its trailing blanks.                                            *)
(***************************************************************************)
KeepLine(line) == Strip(line) # <<>> /\ ~StartsWith(Strip(line), <<":", ">">>)

RECURSIVE LexOf(_)
LexOf(lines) ==
    IF lines = <<>> THEN <<>>
    ELSE IF KeepLine(Head(lines))
         THEN <<RStrip(Head(lines))>> \o LexOf(Tail(lines))
         ELSE LexOf(Tail(lines))

(***************************************************************************)
(* Phase 2, parse.  The state of the loop is the record                    *)
(*   [ast, labels, macros, indent_stack, current_macro, err]               *)
(* where current_macro is <<>> for None and <<name>> otherwise, and err is *)
(* "" or the name of the exception the iteration raised.                   *)
(***************************************************************************)
ParseStart(macros0, labels0) ==
    [ast |-> <<>>, labels |-> labels0, macros |-> macros0,
     indent_stack |-> <<0>>, current_macro |-> <<>>, err |-> ""]

Top(stack) == stack[Len(stack)]

\* a single pop in place of the while loop
PopOnce(stack, indent) ==
    IF indent < Top(stack) THEN SubSeq(stack, 1, Len(stack) - 1) ELSE stack

\* the pop loop without a bottom frame to stop on: the popped stack is
\* replaced by a single frame of the line's own width
PopToLine(stack, indent) ==
    IF indent < Top(stack) THEN <<indent>> ELSE stack

\* while indent < indent_stack[-1]: indent_stack.pop()
RECURSIVE PopWhile(_, _)
PopWhile(stack, indent) ==
    IF indent < Top(stack) THEN PopWhile(SubSeq(stack, 1, Len(stack) - 1), indent)
    ELSE stack

\* `if current_macro`: None and the empty string are both false
Truthy(cm) == cm # <<>> /\ cm[1] # <<>>

IndentOf(line) == Len(line) - Len(LStrip(line))

ParseStep(st, line) ==
    LET indent == IndentOf(line)
        parts == Split(Strip(line))
        instr == parts[1]
        args == Tail(parts)
    IN  IF Is(instr, "chirp")
        THEN IF args = <<>>
             THEN [st EXCEPT !.err = "IndexError"]
             ELSE LET macro_name == RStripCh(args[1], ":")
                  IN  [st EXCEPT !.current_macro = <<macro_name>>,
                                 !.macros = Put(@, macro_name, <<>>),
                                 !.indent_stack = Append(@, indent)]
        ELSE IF Is(instr, "perch") /\ args = <<>>
        THEN [st EXCEPT !.err = "IndexError"]
        ELSE LET labels1 == IF Is(instr, "perch")
                            THEN Put(st.labels, RStripCh(args[1], ":"), Len(st.ast))
                            ELSE st.labels
                 node == Node(instr, args)
                 top == Top(st.indent_stack)
                 stack1 == IF indent > top THEN Append(st.indent_stack, indent)
                           ELSE IF indent < top THEN PopWhile(st.indent_stack, indent)
                           ELSE st.indent_stack
                 cm1 == IF indent < top THEN <<>> ELSE st.current_macro
             IN  IF Truthy(cm1) /\ indent >= Top(stack1)
                 THEN [st EXCEPT !.labels = labels1, !.indent_stack = stack1,
                                 !.current_macro = cm1,
                                 !.macros = [@ EXCEPT ![cm1[1]] = Append(@, node)]]
                 ELSE [st EXCEPT !.labels = labels1, !.indent_stack = stack1,
                                 !.current_macro = cm1,
                                 !.ast = Append(@, node)]

\* parse's loop over the lines, stopping at the first iteration that raises
RECURSIVE ParseFrom(_, _)
ParseFrom(st, lines) ==
    IF lines = <<>> \/ st.err # "" THEN st
    ELSE ParseFrom(ParseStep(st, Head(lines)), Tail(lines))

(***************************************************************************)
(* Phase 3, semantic_check: SyntaxError on a top-level flyto without       *)
(* operands.                                                               *)
(***************************************************************************)
SemanticCheckOf(ast) ==
    IF \E i \in 1..Len(ast) : Is(ast[i].instr, "flyto") /\ ast[i].args = <<>>
    THEN "SyntaxError" ELSE ""

(***************************************************************************)
(* Phase 4, generate_ir: a top-level node whose opcode is a key of macros  *)
(* is replaced by the stored body, any other node is appended.             *)
(***************************************************************************)
\* generate_ir with insert(0, ...) in place of append: the flat IR in reverse
RECURSIVE GenerateIrPrepending(_, _)
GenerateIrPrepending(ast, macros) ==
    IF ast = <<>> THEN <<>>
    ELSE GenerateIrPrepending(Tail(ast), macros) \o
         (IF Head(ast).instr \in DOMAIN macros
          THEN macros[Head(ast).instr]
          ELSE <<Head(ast)>>)

\* generate_ir without its `else`: the call node follows the inserted body
RECURSIVE GenerateIrKeepingCall(_, _)
GenerateIrKeepingCall(ast, macros) ==
    IF ast = <<>> THEN <<>>
    ELSE (IF Head(ast).instr \in DOMAIN macros
          THEN macros[Head(ast).instr] \o <<Head(ast)>>
          ELSE <<Head(ast)>>) \o GenerateIrKeepingCall(Tail(ast), macros)

\* generate_ir applied once more to each inserted body: two levels flattened
RECURSIVE GenerateIrTwoLevels(_, _)
GenerateIrTwoLevels(ast, macros) ==
    LET RECURSIVE Inner(_)
        Inner(body) ==
            IF body = <<>> THEN <<>>
            ELSE (IF Head(body).instr \in DOMAIN macros
                  THEN macros[Head(body).instr]
                  ELSE <<Head(body)>>) \o Inner(Tail(body))
    IN  IF ast = <<>> THEN <<>>
        ELSE (IF Head(ast).instr \in DOMAIN macros
              THEN Inner(macros[Head(ast).instr])
              ELSE <<Head(ast)>>) \o GenerateIrTwoLevels(Tail(ast), macros)

RECURSIVE GenerateIrOf(_, _)
GenerateIrOf(ast, macros) ==
    IF ast = <<>> THEN <<>>
    ELSE (IF Head(ast).instr \in DOMAIN macros
          THEN macros[Head(ast).instr]
          ELSE <<Head(ast)>>) \o GenerateIrOf(Tail(ast), macros)

(***************************************************************************)
(* Phase 6, generate_asm.  target is "linux" or "windows": the two         *)
(* compilers differ only in this phase.                                    *)
(***************************************************************************)
Prologue(target) ==
    IF target = "linux"
    THEN << "section .data",
            "newline db 10, 0",
            "input_prompt db 'Feed the birb: ', 0",
            "input_buffer resb 128",
            "section .bss",
            "tape resb 30000",
            "section .text",
            "global _start",
            "_start:",
            "    mov rsi, tape" >>
    ELSE << "extern ExitProcess",
            "extern printf",
            "extern scanf",
            "section .data",
            "newline db 10, 0",
            "fmt_in db \"%c\", 0",
            "fmt_out db \"%c\", 0",
            "input_buffer db 128 dup(0)",
            "section .bss",
            "tape resb 30000",
            "section .text",
            "global main",
            "main:",
            "    mov rsi, tape" >>

\* index at which mimic inserts its string constant
StrInsertAt(target) == IF target = "linux" THEN 1 ELSE 4

\* the operator-to-branch table of flap
JmpOps == {"==", "!=", ">", "<", ">=", "<="}

JmpOp(op) ==
    CASE op = "==" -> "je"
      [] op = "!=" -> "jne"
      [] op = ">"  -> "jg"
      [] op = "<"  -> "jl"
      [] op = ">=" -> "jge"
      [] op = "<=" -> "jle"

\* The opcodes generate_asm has a branch for.
AsmOpcodes ==
    {"peck", "scratch", "hop", "hopback", "squawk", "mimic", "gulp", "devour",
     "regurgitate", "flyto", "perch", "flap", "add", "sub", "bob", "preen",
     "poop", "perish"}

Emitted(lines, lc, new) == [asm_lines |-> lines \o new, label_count |-> lc, err |-> ""]

Raised(lines, lc, e) == [asm_lines |-> lines, label_count |-> lc, err |-> e]

SquawkLines(target) ==
    IF target = "linux"
    THEN << "    mov rax, 1", "    mov rdi, 1", "    mov rdx, 1",
            "    mov rsi, rsi", "    syscall" >>
    ELSE << "    movzx rcx, byte [rsi]", "    lea rdx, [fmt_out]", "    call printf" >>

MimicLines(target, label, string) ==
    IF target = "linux"
    THEN << "    mov rax, 1", "    mov rdi, 1",
            "    mov rsi, " \o label,
            "    mov rdx, " \o ToString(Len(string) + 1),
            "    syscall" >>
    ELSE << "    lea rcx, [" \o label \o "]", "    call printf" >>

GulpLines(target) ==
    IF target = "linux"
    THEN << "    mov rax, 0", "    mov rdi, 0", "    mov rsi, rsi",
            "    mov rdx, 1", "    syscall" >>
    ELSE << "    lea rdx, [fmt_in]", "    mov rcx, rsi", "    call scanf" >>

DevourLines(target) ==
    IF target = "linux"
    THEN << "    mov rax, 0", "    mov rdi, 0", "    mov rsi, rsi",
            "    mov rdx, 128", "    syscall" >>
    ELSE << "    ; simplified devour -> scanf", "    lea rdx, [fmt_in]",
            "    mov rcx, rsi", "    call scanf" >>

RegurgitateLines(target) ==
    IF target = "linux"
    THEN << ".reg_loop:", "    mov al, [rsi]", "    cmp al, 0", "    je .reg_end",
            "    mov rax, 1", "    mov rdi, 1", "    mov rdx, 1", "    syscall",
            "    inc rsi", "    jmp .reg_loop", ".reg_end:" >>
    ELSE << "reg_loop:", "    mov al, [rsi]", "    cmp al, 0", "    je reg_end",
            "    movzx rcx, al", "    lea rdx, [fmt_out]", "    call printf",
            "    inc rsi", "    jmp reg_loop", "reg_end:" >>

BobLine(target, count) ==
    IF target = "linux"
    THEN "    mov rcx, " \o count \o " ; bob head delay placeholder"
    ELSE "    ; bob pause placeholder: " \o count \o " seconds"

PerishLines(target) ==
    IF target = "linux"
    THEN << "    mov rax, 60", "    xor rdi, rdi", "    syscall" >>
    ELSE << "    xor rcx, rcx", "    call ExitProcess" >>

\* The branch of the emission loop for a node whose opcode has one: the
\* lines and label_count after the node, or the exception the branch raises.
EmitKnown(target, node, lines, lc) ==
    LET instr == Str(node.instr)
        args == node.args
    IN  CASE instr = "peck" -> Emitted(lines, lc, <<"    inc byte [rsi]">>)
          [] instr = "scratch" -> Emitted(lines, lc, <<"    dec byte [rsi]">>)
          [] instr = "hop" -> Emitted(lines, lc, <<"    inc rsi">>)
          [] instr = "hopback" -> Emitted(lines, lc, <<"    dec rsi">>)
          [] instr = "squawk" -> Emitted(lines, lc, SquawkLines(target))
          [] instr = "mimic" ->
                LET label == "str_" \o ToString(lc)
                    string == StripCh(JoinSp(args), "\"")
                    const == label \o " db \"" \o Str(string) \o "\", 10, 0"
                IN  Emitted(Insert(lines, StrInsertAt(target), const), lc + 1,
                            MimicLines(target, label, string))
          [] instr = "gulp" -> Emitted(lines, lc, GulpLines(target))
          [] instr = "devour" -> Emitted(lines, lc, DevourLines(target))
          [] instr = "regurgitate" -> Emitted(lines, lc, RegurgitateLines(target))
          [] instr = "flyto" ->
                IF args = <<>> THEN Raised(lines, lc, "IndexError")
                ELSE Emitted(lines, lc, <<"    jmp ." \o Str(args[1])>>)
          [] instr = "perch" ->
                IF args = <<>> THEN Raised(lines, lc, "IndexError")
                ELSE Emitted(lines, lc, <<"." \o Str(args[1]) \o ":">>)
          [] instr = "flap" ->
                IF Len(args) # 4 THEN Raised(lines, lc, "ValueError")
                ELSE LET label == Str(args[1])
                         left == IF Is(args[2], "bowl") THEN "byte [rsi]" ELSE Str(args[2])
                         op == Str(args[3])
                         right == IF Is(args[4], "empty") THEN "0"
                                  ELSE IF Is(args[4], "bowl") THEN "byte [rsi]"
                                  ELSE Str(args[4])
                     IN  IF op \notin JmpOps THEN Raised(lines, lc, "KeyError")
                         ELSE Emitted(lines, lc,
                                      << "    movzx rax, " \o left,
                                         "    cmp rax, " \o right,
                                         "    " \o JmpOp(op) \o " ." \o label >>)
          [] instr = "add" ->
                IF Len(args) # 2 THEN Raised(lines, lc, "ValueError")
                ELSE IF Is(args[1], "bowl")
                     THEN Emitted(lines, lc, <<"    add byte [rsi], " \o Str(args[2])>>)
                     ELSE Emitted(lines, lc, <<>>)
          [] instr = "sub" ->
                IF Len(args) # 2 THEN Raised(lines, lc, "ValueError")
                ELSE IF Is(args[1], "bowl")
                     THEN Emitted(lines, lc, <<"    sub byte [rsi], " \o Str(args[2])>>)
                     ELSE Emitted(lines, lc, <<>>)
          [] instr = "bob" ->
                IF args = <<>> THEN Raised(lines, lc, "IndexError")
                ELSE Emitted(lines, lc, <<BobLine(target, Str(args[1]))>>)
          [] instr = "preen" -> Emitted(lines, lc, <<"    mov rsi, tape">>)
          [] instr = "poop" -> Emitted(lines, lc, <<"    mov byte [rsi], 0">>)
          [] instr = "perish" -> Emitted(lines, lc, PerishLines(target))

Recognized(node) == Str(node.instr) \in AsmOpcodes

\* the emission loop with a final `else` that reports the opcode in a comment
EmitNodeCommenting(target, node, lines, lc) ==
    IF Recognized(node) THEN EmitKnown(target, node, lines, lc)
    ELSE Emitted(lines, lc, <<"    ; unknown instruction " \o Str(node.instr)>>)

\* the emission loop with a Windows perch branch that emits a global label
EmitNodeGlobalPerch(target, node, lines, lc) ==
    IF Recognized(node)
    THEN IF target = "windows" /\ Str(node.instr) = "perch" /\ node.args # <<>>
         THEN Emitted(lines, lc, <<Str(node.args[1]) \o ":">>)
         ELSE EmitKnown(target, node, lines, lc)
    ELSE Emitted(lines, lc, <<>>)

\* One iteration of the emission loop: an opcode without a branch falls
\* through the if/elif chain and changes nothing.
EmitNode(target, node, lines, lc) ==
    IF Recognized(node) THEN EmitKnown(target, node, lines, lc)
    ELSE Emitted(lines, lc, <<>>)

RECURSIVE EmitFrom(_, _, _, _)
EmitFrom(target, ir, lines, lc) ==
    IF ir = <<>> THEN Emitted(lines, lc, <<>>)
    ELSE LET r == EmitNode(target, Head(ir), lines, lc)
         IN  IF r.err # "" THEN r
             ELSE EmitFrom(target, Tail(ir), r.asm_lines, r.label_count)

\* generate_asm up to the loop's end: asm_lines starts from the prologue,
\* label_count from the value the instance holds.
GenerateAsmOf(target, ir, lc) == EmitFrom(target, ir, Prologue(target), lc)

(***************************************************************************)
(* The token-oriented compiler, parrot_compiler.py.                        *)
(*                                                                         *)
(* ParrotLexer.  A token is the record [type, value, line_number,          *)
(* indentation]: type is the name of the TokenType member, value is a      *)
(* sequence of characters (for NUMBER and CELL_REF the decimal digits of   *)
(* the int), and indentation is <<>> when the attribute is not set and     *)
(* <<k>> when it is k.                                                     *)
(***************************************************************************)
Digits == {"0", "1", "2", "3", "4", "5", "6", "7", "8", "9"}

Letters ==
    {"a", "b", "c", "d", "e", "f", "g", "h", "i", "j", "k", "l", "m", "n", "o",
     "p", "q", "r", "s", "t", "u", "v", "w", "x", "y", "z",
     "A", "B", "C", "D", "E", "F", "G", "H", "I", "J", "K", "L", "M", "N", "O",
     "P", "Q", "R", "S", "T", "U", "V", "W", "X", "Y", "Z"}

IsDigit(c) == c \in Digits

IsAlpha(c) == c \in Letters

IsAlnum(c) == IsAlpha(c) \/ IsDigit(c)

keywords ==
    "peck" :> "PECK" @@ "scratch" :> "SCRATCH" @@ "hop" :> "HOP" @@
    "hopback" :> "HOPBACK" @@ "gulp" :> "GULP" @@ "squawk" :> "SQUAWK" @@
    "stomach" :> "STOMACH" @@ "devour" :> "DEVOUR" @@
    "regurgitate" :> "REGURGITATE" @@ "bowl" :> "BOWL" @@ "mimic" :> "MIMIC" @@
    "preen" :> "PREEN" @@ "poop" :> "POOP" @@ "perch" :> "PERCH" @@
    "chirp" :> "CHIRP" @@ "flyto" :> "FLYTO" @@ "flap" :> "FLAP" @@
    "add" :> "ADD" @@ "sub" :> "SUB" @@ "mul" :> "MUL" @@ "div" :> "DIV" @@
    "bob" :> "BOB" @@ "perish" :> "PERISH" @@ "into" :> "INTO" @@
    "empty" :> "EMPTY"

operators ==
    ">" :> <<">">> @@ "<" :> <<"<">> @@ "=" :> <<"=", "=">> @@
    "==" :> <<"=", "=">> @@ "!=" :> <<"!", "=">> @@ ">=" :> <<">", "=">> @@
    "<=" :> <<"<", "=">>

Token(token_type, value, line_number) ==
    [type |-> token_type, value |-> value, line_number |-> line_number,
     indentation |-> <<>>]

\* `sub in s` for str
Contains(s, sub) ==
    \E k \in 1..(Len(s) - Len(sub) + 1) : SubSeq(s, k, k + Len(sub) - 1) = sub

\* the decimal digits str() gives for the int whose literal is digits
Canonical(digits) ==
    IF LStripCh(digits, "0") = <<>> THEN <<"0">> ELSE LStripCh(digits, "0")

\* int(cs) for a str of word characters: <<>> when it raises ValueError,
\* otherwise <<digits of the value>>.  Single underscores between digits
\* are accepted and dropped.
IntOf(cs) ==
    IF /\ cs # <<>>
       /\ \A k \in 1..Len(cs) :
             \/ IsDigit(cs[k])
             \/ /\ cs[k] = "_"
                /\ 1 < k /\ k < Len(cs)
                /\ IsDigit(cs[k - 1]) /\ IsDigit(cs[k + 1])
    THEN <<Canonical(SelectSeq(cs, IsDigit))>>
    ELSE <<>>

\* Positions are 1-based: position p is Python's index p - 1.
\* the position at which the string scan loop of lines 149-153 stops
RECURSIVE StringEnd(_, _)
StringEnd(line, p) ==
    IF p > Len(line) \/ line[p] = "\"" THEN p
    ELSE IF line[p] = "\\" /\ p < Len(line) THEN StringEnd(line, p + 2)
    ELSE StringEnd(line, p + 1)

RECURSIVE DigitsEnd(_, _)
DigitsEnd(line, p) ==
    IF p <= Len(line) /\ IsDigit(line[p]) THEN DigitsEnd(line, p + 1) ELSE p

RECURSIVE WordEnd(_, _)
WordEnd(line, p) ==
    IF p <= Len(line) /\ (IsAlnum(line[p]) \/ line[p] = "_" \/ line[p] = "#")
    THEN WordEnd(line, p + 1) ELSE p

AtLine(line_num) == " at line " \o ToString(line_num)

\* the inner loop of tokenize over one line, from position p on
RECURSIVE ScanLine(_, _, _, _)
ScanLine(line, p, line_num, line_tokens) ==
    IF p > Len(line) THEN [tokens |-> line_tokens, err |-> ""]
    ELSE LET char == line[p]
         IN  IF IsSpace(char) THEN ScanLine(line, p + 1, line_num, line_tokens)
             ELSE IF char = "\""
             THEN LET q == StringEnd(line, p + 1)
                  IN  IF q <= Len(line)
                      THEN ScanLine(line, q + 1, line_num,
                               Append(line_tokens,
                                      Token("STRING", SubSeq(line, p + 1, q - 1), line_num)))
                      ELSE [tokens |-> <<>>,
                            err |-> "Error: Unclosed string literal" \o AtLine(line_num)]
             ELSE IF IsDigit(char)
             THEN LET q == DigitsEnd(line, p)
                  IN  ScanLine(line, q, line_num,
                          Append(line_tokens,
                                 Token("NUMBER", Canonical(SubSeq(line, p, q - 1)), line_num)))
             ELSE IF IsAlpha(char) \/ char = "_" \/ char = "#"
             THEN LET q == WordEnd(line, p)
                      word == SubSeq(line, p, q - 1)
                  IN  IF word[1] = "#"
                      THEN IF IntOf(Tail(word)) = <<>>
                           THEN [tokens |-> <<>>,
                                 err |-> "Error: Invalid cell reference '" \o Str(word)
                                         \o "'" \o AtLine(line_num)]
                           ELSE ScanLine(line, q, line_num,
                                    Append(line_tokens,
                                           Token("CELL_REF", IntOf(Tail(word))[1], line_num)))
                      ELSE IF Str(word) \in DOMAIN keywords
                      THEN ScanLine(line, q, line_num,
                               Append(line_tokens, Token(keywords[Str(word)], word, line_num)))
                      ELSE ScanLine(line, q, line_num,
                               Append(line_tokens, Token("IDENTIFIER", word, line_num)))
             ELSE IF char \in {"<", ">", "=", "!"}
             THEN LET q == IF p + 1 <= Len(line) /\ line[p + 1] = "=" THEN p + 2 ELSE p + 1
                      op == SubSeq(line, p, q - 1)
                  IN  IF Str(op) \in DOMAIN operators
                      THEN ScanLine(line, q, line_num,
                               Append(line_tokens,
                                      Token("OPERATOR", operators[Str(op)], line_num)))
                      ELSE [tokens |-> <<>>,
                            err |-> "Error: Invalid operator '" \o Str(op)
                                    \o "'" \o AtLine(line_num)]
             ELSE IF char = ":"
             THEN ScanLine(line, p + 1, line_num,
                      Append(line_tokens, Token("IDENTIFIER", <<":">>, line_num)))
             ELSE ScanLine(line, p + 1, line_num, line_tokens)

\* the outer loop of tokenize, from line line_num on; sys.exit(1) is the
\* result with the printed message in err and no tokens
RECURSIVE TokenizeFrom(_, _, _, _)
TokenizeFrom(lines, line_num, multiline_comment, toks) ==
    IF line_num > Len(lines) THEN [tokens |-> toks, err |-> ""]
    ELSE LET line == lines[line_num]
         IN  IF Strip(line) = <<>>
             THEN TokenizeFrom(lines, line_num + 1, multiline_comment, toks)
             ELSE IF multiline_comment
             THEN TokenizeFrom(lines, line_num + 1, ~Contains(line, <<":", ")">>), toks)
             ELSE IF Contains(line, <<"(", ":">>) /\ ~Contains(line, <<":", ")">>)
             THEN TokenizeFrom(lines, line_num + 1, TRUE, toks)
             ELSE IF StartsWith(Strip(line), <<":", ">">>)
             THEN TokenizeFrom(lines, line_num + 1, multiline_comment, toks)
             ELSE LET indentation == IndentOf(line)
                      r == ScanLine(line, indentation + 1, line_num, <<>>)
                  IN  IF r.err # "" THEN r
                      ELSE IF r.tokens = <<>>
                      THEN TokenizeFrom(lines, line_num + 1, multiline_comment, toks)
                      ELSE TokenizeFrom(lines, line_num + 1, multiline_comment,
                               toks \o <<[r.tokens[1] EXCEPT
                                             !.indentation = <<indentation \div 4>>]>>
                                    \o Tail(r.tokens))

TokenizeOf(lines) == TokenizeFrom(lines, 1, FALSE, <<>>)

(***************************************************************************)
(* Python values held by statement nodes: None, a str, or an int given by  *)
(* its decimal digits.                                                     *)
(***************************************************************************)
None == <<>>

PyStr(cs) == <<"str", cs>>

PyInt(ds) == <<"int", ds>>

\* token.value as a Python value
ValueOf(token) ==
    IF token.type \in {"NUMBER", "CELL_REF"} THEN PyInt(token.value)
    ELSE PyStr(token.value)

\* getattr(token, 'indentation', 0)
IndentationOf(token) == IF token.indentation = <<>> THEN 0 ELSE token.indentation[1]

\* `if s.endswith(':'): s = s[:-1]`
DropColon(cs) ==
    IF cs # <<>> /\ cs[Len(cs)] = ":" THEN SubSeq(cs, 1, Len(cs) - 1) ELSE cs

\* dict[name] = size on a dict kept in insertion order, as a sequence of
\* [name, size] entries
DictSet(d, name, size) ==
    IF \E k \in 1..Len(d) : d[k].name = name
    THEN [k \in 1..Len(d) |-> IF d[k].name = name THEN [name |-> name, size |-> size]
                              ELSE d[k]]
    ELSE Append(d, [name |-> name, size |-> size])

DictKeys(d) == {d[k].name : k \in 1..Len(d)}

(***************************************************************************)
(* ParrotParser.first_pass.  Indices are Python's: token k is toks[k + 1]. *)
(***************************************************************************)
\* the index at which the body collection loop of lines 275-278 stops
RECURSIVE ChirpBodyEnd(_, _)
ChirpBodyEnd(toks, j) ==
    IF j < Len(toks) /\ ~(toks[j + 1].type \in {"PERCH", "CHIRP"} /\
                          IndentationOf(toks[j + 1]) = 0)
    THEN ChirpBodyEnd(toks, j + 1)
    ELSE j

\* one iteration of first_pass's loop on the state [i, labels, chirps, stomachs]
FirstPassIter(toks, st) ==
    LET i == st.i
        token == toks[i + 1]
        next_is(t, k) == i + k < Len(toks) /\ toks[i + k + 1].type = t
    IN  IF token.type = "PERCH"
        THEN [st EXCEPT !.labels = IF next_is("IDENTIFIER", 1)
                                   THEN @ \cup {DropColon(toks[i + 2].value)}
                                   ELSE @,
                        !.i = i + 2 + 1]
        ELSE IF token.type = "CHIRP"
        THEN IF next_is("IDENTIFIER", 1)
             THEN LET chirp_name == DropColon(toks[i + 2].value)
                      e == ChirpBodyEnd(toks, i + 2)
                  IN  [st EXCEPT !.chirps = Put(@, chirp_name, SubSeq(toks, i + 3, e)),
                                 !.i = e]
             ELSE [st EXCEPT !.i = i + 1]
        ELSE IF token.type = "STOMACH"
        THEN LET size == IF next_is("NUMBER", 1) THEN PyInt(toks[i + 2].value) ELSE None
                 name == IF next_is("NUMBER", 1)
                         THEN (IF next_is("IDENTIFIER", 2) THEN toks[i + 3].value ELSE <<>>)
                         ELSE IF next_is("IDENTIFIER", 1) THEN toks[i + 2].value
                         ELSE <<>>
             IN  [st EXCEPT !.stomachs = IF name # <<>> THEN DictSet(@, name, size) ELSE @,
                            !.i = i + 1]
        ELSE [st EXCEPT !.i = i + 1]

(***************************************************************************)
(* ParrotParser.parse_statement: the result is [current, statement, err],  *)
(* statement being <<>> for None and <<node>> for a returned dict, and err *)
(* the message printed before sys.exit(1), or "".                          *)
(***************************************************************************)
\* the optional-operand pattern `if not self.is_at_end() and
\* self.peek().type in types: x = self.advance().value`
Take(toks, cur, types) ==
    IF cur < Len(toks) /\ toks[cur + 1].type \in types
    THEN [current |-> cur + 1, value |-> ValueOf(toks[cur + 1]), type |-> toks[cur + 1].type]
    ELSE [current |-> cur, value |-> None, type |-> ""]

Returned(cur, node) == [current |-> cur, statement |-> <<node>>, err |-> ""]

\* the final `return None` of a parse_statement whose else branch does not
\* call advance
ReturnedNoneUnadvanced(cur) == [current |-> cur - 1, statement |-> <<>>, err |-> ""]

ReturnedNone(cur) == [current |-> cur, statement |-> <<>>, err |-> ""]

Exited(cur, message) == [current |-> cur, statement |-> <<>>, err |-> message]

ParseStatementOf(toks, cur, chirps) ==
    IF cur >= Len(toks) THEN ReturnedNone(cur)
    ELSE
    LET token == toks[cur + 1]
        t == token.type
        c1 == cur + 1
    IN  CASE t \in {"PECK", "SCRATCH", "HOP", "HOPBACK", "SQUAWK", "PREEN", "POOP",
                    "MUL", "DIV", "PERISH"} ->
                Returned(c1, [type |-> Str(token.value)])
          [] t = "GULP" ->
                LET a == Take(toks, c1, {"STRING", "NUMBER"})
                IN  Returned(a.current,
                             [type |-> "gulp",
                              args |-> IF a.type = "" THEN <<>> ELSE <<a.value>>])
          [] t = "STOMACH" ->
                LET size == Take(toks, c1, {"NUMBER"})
                    name == Take(toks, size.current, {"IDENTIFIER"})
                IN  IF name.type = ""
                    THEN Exited(size.current,
                                "Error at line " \o ToString(token.line_number)
                                \o ": Expected stomach name")
                    ELSE Returned(name.current,
                                  [type |-> "stomach", name |-> name.value,
                                   size |-> size.value])
          [] t = "DEVOUR" ->
                LET target == IF cur + 1 < Len(toks) /\ toks[c1 + 1].type = "INTO"
                              THEN Take(toks, c1 + 1, {"IDENTIFIER", "NUMBER"})
                              ELSE [current |-> c1, value |-> None, type |-> ""]
                    content == Take(toks, target.current, {"STRING"})
                IN  Returned(content.current,
                             [type |-> "devour", target |-> target.value,
                              content |-> content.value])
          [] t = "REGURGITATE" ->
                LET target == Take(toks, c1, {"IDENTIFIER"})
                IN  Returned(target.current,
                             [type |-> "regurgitate", target |-> target.value])
          [] t = "MIMIC" ->
                LET text == Take(toks, c1, {"STRING"})
                IN  IF text.type = ""
                    THEN Exited(c1,
                                "Error at line " \o ToString(token.line_number)
                                \o ": Expected string after mimic")
                    ELSE Returned(text.current, [type |-> "mimic", text |-> text.value])
          [] t = "PERCH" ->
                LET name == Take(toks, c1, {"IDENTIFIER"})
                IN  Returned(name.current,
                             [type |-> "perch",
                              name |-> IF name.type = "" THEN None
                                       ELSE PyStr(DropColon(name.value[2]))])
          [] t = "FLYTO" ->
                LET target == Take(toks, c1, {"IDENTIFIER"})
                IN  Returned(target.current, [type |-> "flyto", target |-> target.value])
          [] t = "FLAP" ->
                LET target == Take(toks, c1, {"IDENTIFIER"})
                    left == Take(toks, target.current, {"BOWL", "NUMBER"})
                    op == Take(toks, left.current, {"OPERATOR"})
                    right == Take(toks, op.current, {"EMPTY", "NUMBER", "BOWL"})
                IN  Returned(right.current,
                             [type |-> "flap", target |-> target.value,
                              left |-> left.value, op |-> op.value,
                              right |-> right.value])
          [] t \in {"ADD", "SUB"} ->
                LET left == Take(toks, c1, {"BOWL", "NUMBER", "CELL_REF"})
                    right == Take(toks, left.current, {"NUMBER", "BOWL", "CELL_REF"})
                IN  Returned(right.current,
                             [type |-> IF t = "ADD" THEN "add" ELSE "sub",
                              left |-> left.value, right |-> right.value,
                              left_is_cell |-> left.type = "CELL_REF",
                              right_is_cell |-> right.type = "CELL_REF"])
          [] t = "BOB" ->
                LET count == Take(toks, c1, {"NUMBER"})
                IN  Returned(count.current, [type |-> "bob", count |-> count.value])
          [] t = "IDENTIFIER" ->
                IF token.value \in DOMAIN chirps
                THEN Returned(c1, [type |-> "chirp_call", name |-> PyStr(token.value)])
                ELSE ReturnedNone(c1)
          [] OTHER -> ReturnedNone(c1)

(***************************************************************************)
(* CodeGenerator.  os_name is os.name; the result of generate is the list  *)
(* self.code, joined with newlines by GenerateOf.                          *)
(***************************************************************************)
\* the text appended at line 586
CIncludes ==
    "\n" \o
    "#include <stdio.h>\n" \o
    "#include <stdlib.h>\n" \o
    "#include <string.h>\n"

\* the text appended at line 594
CWindowsIncludes ==
    "\n" \o
    "#include <windows.h>\n" \o
    "#define sleep(x) Sleep((x) * 1000)\n"

\* the text appended at line 599
CUnixIncludes ==
    "\n" \o
    "#include <unistd.h>\n"

\* the text appended at line 603
CGlobals ==
    "\n" \o
    "#include <stdint.h>\n" \o
    "\n" \o
    "#define TAPE_SIZE 30000\n" \o
    "#define MAX_INPUT 1024\n" \o
    "\n" \o
    "// Globals\n" \o
    "uint8_t tape[TAPE_SIZE] = {0};\n" \o
    "int ptr = 0;\n" \o
    "char input_buffer[MAX_INPUT];\n" \o
    "\n" \o
    "// Forward declarations\n" \o
    "void squawk();\n" \o
    "void gulp(int direct_val, char direct_char);\n"

\* the text appended at line 624
CHelpers ==
    "\n" \o
    "// Helper functions\n" \o
    "void squawk() {\n" \o
    "    printf(\"%c\\n\", tape[ptr]);\n" \o
    "}\n" \o
    "\n" \o
    "void gulp(int direct_val, char direct_char) {\n" \o
    "    if (direct_val != -1) {\n" \o
    "        tape[ptr] = direct_val;\n" \o
    "        return;\n" \o
    "    }\n" \o
    "    \n" \o
    "    if (direct_char != 0) {\n" \o
    "        tape[ptr] = direct_char;\n" \o
    "        return;\n" \o
    "    }\n" \o
    "    \n" \o
    "    printf(\"Feed the birb: \");\n" \o
    "    fflush(stdout);\n" \o
    "    \n" \o
    "    int ch = getchar();\n" \o
    "    if (ch == EOF || ch == '\\n') {\n" \o
    "        tape[ptr] = 0;  // Set to empty on EOF or newline\n" \o
    "    } else {\n" \o
    "        tape[ptr] = ch;\n" \o
    "        // Eat up rest of the line\n" \o
    "        while ((ch = getchar()) != '\\n' && ch != EOF);\n" \o
    "    }\n" \o
    "}\n" \o
    "\n" \o
    "void devour(uint8_t *target, const char *content) {\n" \o
    "    if (content != NULL) {\n" \o
    "        // Direct content provided\n" \o
    "        int i = 0;\n" \o
    "        while (content[i] != '\\0') {\n" \o
    "            target[i] = content[i];\n" \o
    "            i++;\n" \o
    "        }\n" \o
    "        target[i] = 0;  // Null-terminate\n" \o
    "    } else {\n" \o
    "        // User input\n" \o
    "        printf(\"birb opens wide: \");\n" \o
    "        fflush(stdout);\n" \o
    "        \n" \o
    "        fgets(input_buffer, MAX_INPUT, stdin);\n" \o
    "        size_t len = strlen(input_buffer);\n" \o
    "        \n" \o
    "        // Remove trailing newline if present\n" \o
    "        if (len > 0 && input_buffer[len-1] == '\\n') {\n" \o
    "            input_buffer[len-1] = '\\0';\n" \o
    "            len--;\n" \o
    "        }\n" \o
    "        \n" \o
    "        // Copy to target\n" \o
    "        for (size_t i = 0; i < len; i++) {\n" \o
    "            target[i] = input_buffer[i];\n" \o
    "        }\n" \o
    "        target[len] = 0;  // Null-terminate\n" \o
    "    }\n" \o
    "}\n" \o
    "\n" \o
    "void regurgitate(uint8_t *source) {\n" \o
    "    int i = 0;\n" \o
    "    while (source[i] != 0) {\n" \o
    "        putchar(source[i]);\n" \o
    "        i++;\n" \o
    "    }\n" \o
    "    printf(\"\\n\");\n" \o
    "}\n" \o
    "\n" \o
    "int main() {\n"

\* the text appended at line 703
CReturn ==
    "    return 0;\n" \o
    "}"

\* str(v) for a Python value
Fmt(v) == IF v = None THEN "None" ELSE Str(v[2])

Bowl == PyStr(<<"b", "o", "w", "l">>)

\* the lines generate_node appends for one node, at indent_level 1
GenerateNode(node, stomachs) ==
    LET ind == "    "
        t == node.type
    IN  CASE t = "peck" -> <<ind \o "tape[ptr]++;">>
          [] t = "scratch" -> <<ind \o "tape[ptr]--;">>
          [] t = "hop" -> <<ind \o "ptr++;">>
          [] t = "hopback" -> <<ind \o "ptr--;">>
          [] t = "gulp" ->
                IF node.args # <<>> /\ node.args[1][1] = "int"
                THEN <<ind \o "gulp(" \o Fmt(node.args[1]) \o ", 0);">>
                ELSE IF node.args # <<>> /\ node.args[1][1] = "str"
                THEN <<ind \o "gulp(-1, '" \o Fmt(node.args[1]) \o "');">>
                ELSE <<ind \o "gulp(-1, 0);">>
          [] t = "squawk" -> <<ind \o "squawk();">>
          [] t = "mimic" -> <<ind \o "printf(\"" \o Fmt(node.text) \o "\\n\");">>
          [] t = "preen" -> <<ind \o "ptr = 0;">>
          [] t = "poop" ->
                <<ind \o "tape[ptr] = 0;",
                  ind \o "printf(\"Birb relieved itself on cell %d\\n\", ptr);">>
          [] t = "perch" -> <<Fmt(node.name) \o ":">>
          [] t = "flyto" -> <<ind \o "goto " \o Fmt(node.target) \o ";">>
          [] t = "flap" ->
                LET left_expr == IF node.left = Bowl THEN "tape[ptr]" ELSE Fmt(node.left)
                    right_expr == IF node.right = PyStr(<<"e", "m", "p", "t", "y">>) THEN "0"
                                  ELSE IF node.right = Bowl THEN "tape[ptr]"
                                  ELSE Fmt(node.right)
                IN  <<ind \o "if (" \o left_expr \o " " \o Fmt(node.op) \o " "
                          \o right_expr \o ") {",
                      ind \o "    goto " \o Fmt(node.target) \o ";",
                      ind \o "}">>
          [] t \in {"add", "sub"} ->
                LET left_expr == IF node.left = Bowl THEN "tape[ptr]"
                                 ELSE "tape[" \o Fmt(node.left) \o "]"
                    right_expr == IF node.right = Bowl THEN "tape[ptr]"
                                  ELSE IF node.right_is_cell
                                  THEN "tape[" \o Fmt(node.right) \o "]"
                                  ELSE Fmt(node.right)
                IN  <<ind \o left_expr \o (IF t = "add" THEN " += " ELSE " -= ")
                          \o right_expr \o ";">>
          [] t \in {"mul", "div"} -> <<ind \o "printf(\"SQUAWK!\\n\");">>
          [] t = "bob" ->
                <<ind \o "printf(\"birb bobs head " \o Fmt(node.count) \o " times...\\n\");",
                  ind \o "sleep(" \o Fmt(node.count) \o ");">>
          [] t = "perish" ->
                <<ind \o "printf(\"birb has perished ;-;\\n\");",
                  ind \o "return 0;">>
          [] t = "stomach" -> <<>>
          [] t = "devour" ->
                LET target_expr ==
                        IF node.target = None THEN "tape + ptr"
                        ELSE IF node.target[1] = "str" /\ node.target[2] \in DictKeys(stomachs)
                        THEN "stomach_" \o Fmt(node.target)
                        ELSE "tape + " \o Fmt(node.target)
                    content_expr == IF node.content # None
                                    THEN "\"" \o Fmt(node.content) \o "\""
                                    ELSE "NULL"
                IN  <<ind \o "devour(" \o target_expr \o ", " \o content_expr \o ");">>
          [] t = "regurgitate" ->
                LET source_expr ==
                        IF node.target = None THEN "tape + ptr"
                        ELSE IF node.target[2] \in DictKeys(stomachs)
                        THEN "stomach_" \o Fmt(node.target)
                        ELSE "tape + ptr"
                IN  <<ind \o "regurgitate(" \o source_expr \o ");">>
          [] t = "chirp_call" -> <<ind \o "// Chirp call: " \o Fmt(node.name)>>
          [] OTHER -> <<>>

\* the global array definition of one stomachs entry, lines 620-622
StomachArray(entry) ==
    "uint8_t stomach_" \o Str(entry.name) \o "["
        \o (IF entry.size # None THEN Fmt(entry.size) ELSE ToString(1024))
        \o "] = {0};"

RECURSIVE GenerateNodes(_, _)
GenerateNodes(nodes, stomachs) ==
    IF nodes = <<>> THEN <<>>
    ELSE GenerateNode(Head(nodes), stomachs) \o GenerateNodes(Tail(nodes), stomachs)

\* self.code when generate returns
GenerateCode(os_name, nodes, stomachs) ==
    <<CIncludes, IF os_name = "nt" THEN CWindowsIncludes ELSE CUnixIncludes, CGlobals>>
    \o [k \in 1..Len(stomachs) |-> StomachArray(stomachs[k])]
    \o <<CHelpers>>
    \o GenerateNodes(nodes, stomachs)
    \o <<CReturn>>

(***************************************************************************)
(* Source lines the input files are made of, character by character.       *)
(***************************************************************************)
L ==
    [ \* `chirp m:`
      chirp_m |-> <<"c", "h", "i", "r", "p", " ", "m", ":">>,
      \* `chirp n:`
      chirp_n |-> <<"c", "h", "i", "r", "p", " ", "n", ":">>,
      \* `  peck`
      in_peck |-> <<" ", " ", "p", "e", "c", "k">>,
      \* `  m`
      in_m |-> <<" ", " ", "m">>,
      \* `  flyto`
      in_flyto |-> <<" ", " ", "f", "l", "y", "t", "o">>,
      \* `  mimic "yo"`
      in_mimic |-> <<" ", " ", "m", "i", "m", "i", "c", " ", "\"", "y", "o", "\"">>,
      \* `m`
      m |-> <<"m">>,
      \* `n`
      n |-> <<"n">>,
      \* `perch a:`
      perch_a |-> <<"p", "e", "r", "c", "h", " ", "a", ":">>,
      \* `peck`
      peck |-> <<"p", "e", "c", "k">>,
      \* `peck  `
      peck_sp |-> <<"p", "e", "c", "k", " ", " ">>,
      \* `flyto`
      flyto |-> <<"f", "l", "y", "t", "o">>,
      \* `flyto a`
      flyto_a |-> <<"f", "l", "y", "t", "o", " ", "a">>,
      \* `mimic "hi"`
      mimic_hi |-> <<"m", "i", "m", "i", "c", " ", "\"", "h", "i", "\"">>,
      \* `mimic "a b"`
      mimic_ab |-> <<"m", "i", "m", "i", "c", " ", "\"", "a", " ", "b", "\"">>,
      \* `:> note`
      comment |-> <<":", ">", " ", "n", "o", "t", "e">>,
      \* `  `
      blank |-> <<" ", " ">>,
      \* `bob`
      bob |-> <<"b", "o", "b">>,
      \* `bob 3`
      bob_3 |-> <<"b", "o", "b", " ", "3">>,
      \* `flap a bowl < 5`
      flap_4 |-> <<"f", "l", "a", "p", " ", "a", " ", "b", "o", "w", "l", " ", "<", " ", "5">>,
      \* `flap a bowl`
      flap_2 |-> <<"f", "l", "a", "p", " ", "a", " ", "b", "o", "w", "l">>,
      \* `add bowl`
      add_1 |-> <<"a", "d", "d", " ", "b", "o", "w", "l">>,
      \* `add bowl 2`
      add_2 |-> <<"a", "d", "d", " ", "b", "o", "w", "l", " ", "2">>,
      \* `mul`
      mul |-> <<"m", "u", "l">>,
      \* `stomach 64 nest`
      stomach |-> <<"s", "t", "o", "m", "a", "c", "h", " ", "6", "4", " ", "n", "e", "s", "t">>,
      \* `perch start:`
      perch_start |-> <<"p", "e", "r", "c", "h", " ", "s", "t", "a", "r", "t", ":">>,
      \* `perch start`
      perch_start_bare |-> <<"p", "e", "r", "c", "h", " ", "s", "t", "a", "r", "t">>,
      \* `scratch`
      scratch |-> <<"s", "c", "r", "a", "t", "c", "h">>,
      \* `hop`
      hop |-> <<"h", "o", "p">>,
      \* `flap start bowl < 5`
      flap_lt |-> <<"f", "l", "a", "p", " ", "s", "t", "a", "r", "t", " ", "b", "o", "w", "l", " ", "<", " ", "5">>,
      \* `flap start bowl >= 5`
      flap_ge |-> <<"f", "l", "a", "p", " ", "s", "t", "a", "r", "t", " ", "b", "o", "w", "l", " ", ">", "=", " ", "5">>,
      \* `mimic "done"`
      mimic_done |-> <<"m", "i", "m", "i", "c", " ", "\"", "d", "o", "n", "e", "\"">>,
      \* `mimic "done`, the closing quote missing
      mimic_open |-> <<"m", "i", "m", "i", "c", " ", "\"", "d", "o", "n", "e">>,
      \* `perish`
      perish |-> <<"p", "e", "r", "i", "s", "h">>,
      \* `preen`
      preen |-> <<"p", "r", "e", "e", "n">>,
      \* `  chirp n:`
      in_chirp_n |-> <<" ", " ", "c", "h", "i", "r", "p", " ", "n", ":">>,
      \* `  hop`
      in_hop |-> <<" ", " ", "h", "o", "p">>,
      \* `    poop`
      in4_poop |-> <<" ", " ", " ", " ", "p", "o", "o", "p">>,
      \* `:> a (: b`
      comment_open |-> <<":", ">", " ", "a", " ", "(", ":", " ", "b">>,
      \* `  :> x`
      in_comment |-> <<" ", " ", ":", ">", " ", "x">>,
      \* `(: c`
      block_open |-> <<"(", ":", " ", "c">>,
      \* `c :)`
      block_close |-> <<"c", " ", ":", ")">>,
      \* `    peck`
      in4_peck |-> <<" ", " ", " ", " ", "p", "e", "c", "k">>,
      \* `    hop`
      in4_hop |-> <<" ", " ", " ", " ", "h", "o", "p">>,
      \* `perch`
      perch |-> <<"p", "e", "r", "c", "h">>,
      \* `mimic`
      mimic |-> <<"m", "i", "m", "i", "c">>,
      \* `stomach`
      stomach_bare |-> <<"s", "t", "o", "m", "a", "c", "h">>,
      \* `stomach crop`
      stomach_crop |-> <<"s", "t", "o", "m", "a", "c", "h", " ", "c", "r", "o", "p">>,
      \* `devour into nest "hi"`
      devour |-> <<"d", "e", "v", "o", "u", "r", " ", "i", "n", "t", "o", " ", "n", "e", "s", "t", " ", "\"", "h", "i", "\"">>,
      \* `perch a`
      perch_a_bare |-> <<"p", "e", "r", "c", "h", " ", "a">>,
      \* `flap a bowl = 5`
      flap_eq1 |-> <<"f", "l", "a", "p", " ", "a", " ", "b", "o", "w", "l", " ", "=", " ", "5">>,
      \* `flap a bowl == 5`
      flap_eq |-> <<"f", "l", "a", "p", " ", "a", " ", "b", "o", "w", "l", " ", "=", "=", " ", "5">>,
      \* `flap a bowl != 5`
      flap_ne |-> <<"f", "l", "a", "p", " ", "a", " ", "b", "o", "w", "l", " ", "!", "=", " ", "5">>,
      \* `flap a bowl <= 5`
      flap_le |-> <<"f", "l", "a", "p", " ", "a", " ", "b", "o", "w", "l", " ", "<", "=", " ", "5">>,
      \* `flap a bowl > 5`
      flap_gt |-> <<"f", "l", "a", "p", " ", "a", " ", "b", "o", "w", "l", " ", ">", " ", "5">>,
      \* `flap a bowl ! 5`
      flap_bang |-> <<"f", "l", "a", "p", " ", "a", " ", "b", "o", "w", "l", " ", "!", " ", "5">>,
      \* `flap a bowl << 5`
      flap_shift |-> <<"f", "l", "a", "p", " ", "a", " ", "b", "o", "w", "l", " ", "<", "<", " ", "5">>,
      \* `flap a bowl <> 5`
      flap_diamond |-> <<"f", "l", "a", "p", " ", "a", " ", "b", "o", "w", "l", " ", "<", ">", " ", "5">>,
      \* `flap a bowl => 5`
      flap_arrow |-> <<"f", "l", "a", "p", " ", "a", " ", "b", "o", "w", "l", " ", "=", ">", " ", "5">>,
      \* `hopback`
      hopback |-> <<"h", "o", "p", "b", "a", "c", "k">>,
      \* `poop`
      poop |-> <<"p", "o", "o", "p">>,
      \* `sub bowl 2`
      sub_2 |-> <<"s", "u", "b", " ", "b", "o", "w", "l", " ", "2">>,
      \* `add x 1`
      add_x |-> <<"a", "d", "d", " ", "x", " ", "1">>,
      \* `sub x 1`
      sub_x |-> <<"s", "u", "b", " ", "x", " ", "1">>,
      \* `flap a bowl == empty`
      flap_empty |-> <<"f", "l", "a", "p", " ", "a", " ", "b", "o", "w", "l", " ", "=", "=", " ", "e", "m", "p", "t", "y">>,
      \* `squawk`
      squawk |-> <<"s", "q", "u", "a", "w", "k">>,
      \* `regurgitate`
      regurgitate |-> <<"r", "e", "g", "u", "r", "g", "i", "t", "a", "t", "e">>,
      \* `"hi"`
      str_hi |-> <<"\"", "h", "i", "\"">>,
      \* `chirp`
      chirp |-> <<"c", "h", "i", "r", "p">> ]

\* line sets of the input files, one per specification
LinesIr == {L.chirp_m, L.chirp_n, L.in_peck, L.in_m, L.m, L.n, L.perch_a}

LinesFlyto == {L.chirp_m, L.in_flyto, L.m, L.flyto, L.flyto_a, L.blank}

LinesEmit ==
    {L.bob, L.bob_3, L.flap_4, L.flap_2, L.add_1, L.add_2, L.mul, L.stomach,
     L.peck, L.mimic_hi}

LinesRuns == {L.mimic_ab, L.chirp_m, L.in_mimic, L.m, L.peck_sp, L.comment}

\* lines at indent widths 0, 2 and 4, each width with its own opcode
LinesIndent == {L.chirp_m, L.in_chirp_n, L.peck, L.in_hop, L.in4_poop}

\* comment lines and block comment delimiters among instructions
LinesComments ==
    {L.comment_open, L.comment, L.in_comment, L.block_open, L.block_close, L.peck, L.hop}

\* opcodes with and without their operands
LinesOperands ==
    {L.flyto, L.flyto_a, L.perch, L.perch_a, L.flap_2, L.flap_4, L.add_1, L.add_2,
     L.mimic, L.mimic_hi, L.stomach_bare, L.stomach, L.bob, L.peck}

\* a chirp definition with bodies indented by four, and calls
LinesParsers == {L.chirp_m, L.in4_peck, L.in4_hop, L.m, L.peck, L.hop}

\* stomach declarations before and after chirp and perch lines
LinesStomachs ==
    {L.stomach, L.stomach_crop, L.devour, L.chirp_m, L.in4_peck, L.perch_a_bare, L.peck}

\* flap lines with the operators of the table and with other runs of the
\* operator characters
LinesOperators ==
    {L.flap_eq1, L.flap_eq, L.flap_ne, L.flap_le, L.flap_gt, L.flap_lt, L.flap_ge,
     L.flap_bang, L.flap_shift, L.flap_diamond, L.flap_arrow}

\* the opcodes without I/O in every operand shape, and one with I/O
LinesBackends ==
    {L.peck, L.scratch, L.hop, L.hopback, L.perch_a, L.flyto_a, L.flap_eq, L.flap_ne,
     L.flap_gt, L.flap_lt, L.flap_ge, L.flap_le, L.flap_empty, L.flap_eq1, L.add_2,
     L.add_x, L.sub_2, L.sub_x, L.preen, L.poop, L.squawk}

\* opcodes that emit labels or load rsi, among opcodes that address the tape
LinesLabels ==
    {L.mimic_hi, L.mimic_done, L.regurgitate, L.perch_a, L.perch_start, L.peck,
     L.scratch, L.squawk, L.hop, L.preen}

\* statements, tokens that start no statement, and statements that end the
\* parse with an error
LinesTerminate ==
    {L.str_hi, L.chirp, L.chirp_m, L.in4_peck, L.m, L.perch_a, L.mimic}

\* the six-line example program of the specification, and the programs that
\* differ from it in one or more lines
ExampleSource ==
    <<L.perch_start, L.peck, L.peck, L.flap_lt, L.mimic_done, L.perish>>

ExampleChoices ==
    << {L.perch_start, L.perch_start_bare}, {L.peck, L.scratch}, {L.peck, L.hop},
       {L.flap_lt, L.flap_ge}, {L.mimic_done, L.mimic_open}, {L.perish, L.preen} >>

ExampleTexts ==
    {t \in [1..6 -> UNION {ExampleChoices[i] : i \in 1..6}] :
        \A i \in 1..6 : t[i] \in ExampleChoices[i]}

\* the source texts of at most max lines over a line set
Texts(lineSet, max) == UNION {[1..k -> lineSet] : k \in 1..max}

Targets == {"linux", "windows"}

(***************************************************************************)
(* State.  input_file is the text of the .prrt file and target the         *)
(* compiler that is run on it; pc is the driver's position; source ..      *)
(* ir are the fields of the ParrotCompiler instance; pi, indent_stack and  *)
(* current_macro are the locals of parse's loop (pi the 1-based index of   *)
(* the next line); err is the exception that ended the run ("" if none);   *)
(* output_file is <<>> or <<text>>, the file generate_asm writes;          *)
(* run counts the compiler instances constructed so far, emits the         *)
(* generate_asm calls completed on the current one, and outputs records    *)
(* each text written with the instance and the call that wrote it.         *)
(***************************************************************************)
VARIABLES input_file, target, pc, run, emits, err,
          source, tokens, ast, labels, macros, label_count, asm_lines, ir,
          pi, indent_stack, current_macro,
          output_file, outputs,
          fp_i, current, chirps, stomachs, code

vars == <<input_file, target, pc, run, emits, err,
          source, tokens, ast, labels, macros, label_count, asm_lines, ir,
          pi, indent_stack, current_macro,
          output_file, outputs,
          fp_i, current, chirps, stomachs, code>>

fields == <<source, tokens, ast, labels, macros, label_count, asm_lines, ir>>

locals == <<pi, indent_stack, current_macro>>

\* the state of the token-oriented compiler: first_pass's index i, the
\* fields of ParrotParser and CodeGenerator.code
parser_fields == <<fp_i, current, chirps, stomachs, code>>

\* the variables only the line-oriented compilers use
line_fields == <<run, emits, source, macros, label_count, asm_lines, ir, locals, outputs>>

\* ParrotCompiler.__init__
Constructed ==
    /\ source = <<>>
    /\ tokens = <<>>
    /\ ast = <<>>
    /\ labels = EmptyDict
    /\ macros = EmptyDict
    /\ label_count = 0
    /\ asm_lines = <<>>
    /\ ir = <<>>

\* ParrotParser.__init__ and CodeGenerator.__init__
ParserConstructed ==
    /\ fp_i = 0
    /\ current = 0
    /\ chirps = EmptyDict
    /\ stomachs = <<>>
    /\ code = <<>>

InitWith(texts, targets) ==
    /\ input_file \in texts
    /\ target \in targets
    /\ pc = "lex"
    /\ run = 1
    /\ emits = 0
    /\ err = ""
    /\ Constructed
    /\ pi = 1
    /\ indent_stack = <<0>>
    /\ current_macro = <<>>
    /\ output_file = <<>>
    /\ outputs = <<>>
    /\ ParserConstructed

Init == InitWith(Texts(LinesIr, MaxLines), {"linux"})

InitFlyto == InitWith(Texts(LinesFlyto, MaxLines), Targets)

InitEmit == InitWith(Texts(LinesEmit, MaxEmitLines), Targets)

InitRuns == InitWith(Texts(LinesRuns, MaxLines), Targets)

InitIndent == InitWith(Texts(LinesIndent, MaxLines), {"linux"})

InitBackends == InitWith(Texts(LinesBackends, MaxBackendLines), Targets)

InitLabels == InitWith(Texts(LinesLabels, MaxBackendLines), Targets)

InitExample == InitWith(ExampleTexts, Targets)

(***************************************************************************)
(* The driver's steps.  An uncaught exception ends the process: pc becomes *)
(* "failed" and err names the exception.                                   *)
(***************************************************************************)
Lex ==
    /\ pc = "lex"
    /\ source' = input_file
    /\ tokens' = LexOf(input_file)
    /\ pc' = "parse"
    /\ UNCHANGED <<input_file, target, run, emits, err, ast, labels, macros,
                   label_count, asm_lines, ir, locals, output_file, outputs>>
    /\ UNCHANGED parser_fields

\* parse, up to the loop
ParseBegin ==
    /\ pc = "parse"
    /\ LET st == ParseStart(macros, labels)
       IN  /\ ast' = st.ast
           /\ indent_stack' = st.indent_stack
           /\ current_macro' = st.current_macro
    /\ pi' = 1
    /\ pc' = "parse_loop"
    /\ UNCHANGED <<input_file, target, run, emits, err, source, tokens, labels,
                   macros, label_count, asm_lines, ir, output_file, outputs>>
    /\ UNCHANGED parser_fields

\* one iteration of parse's loop
ParseLine ==
    /\ pc = "parse_loop"
    /\ pi <= Len(tokens)
    /\ LET st == ParseStep([ast |-> ast, labels |-> labels, macros |-> macros,
                            indent_stack |-> indent_stack,
                            current_macro |-> current_macro, err |-> ""],
                           tokens[pi])
       IN  /\ ast' = st.ast
           /\ labels' = st.labels
           /\ macros' = st.macros
           /\ indent_stack' = st.indent_stack
           /\ current_macro' = st.current_macro
           /\ err' = st.err
           /\ IF st.err # ""
              THEN pc' = "failed" /\ pi' = pi
              ELSE pc' = "parse_loop" /\ pi' = pi + 1
    /\ UNCHANGED <<input_file, target, run, emits, source, tokens, label_count,
                   asm_lines, ir, output_file, outputs>>
    /\ UNCHANGED parser_fields

\* the loop is exhausted and parse returns
ParseEnd ==
    /\ pc = "parse_loop"
    /\ pi > Len(tokens)
    /\ pc' = "semantic"
    /\ UNCHANGED <<input_file, target, run, emits, err, fields, locals,
                   output_file, outputs>>
    /\ UNCHANGED parser_fields

SemanticCheck ==
    /\ pc = "semantic"
    /\ err' = SemanticCheckOf(ast)
    /\ pc' = IF SemanticCheckOf(ast) # "" THEN "failed" ELSE "ir"
    /\ UNCHANGED <<input_file, target, run, emits, fields, locals,
                   output_file, outputs>>
    /\ UNCHANGED parser_fields

GenerateIr ==
    /\ pc = "ir"
    /\ ir' = GenerateIrOf(ast, macros)
    /\ pc' = "optimize"
    /\ UNCHANGED <<input_file, target, run, emits, err, source, tokens, ast,
                   labels, macros, label_count, asm_lines, locals,
                   output_file, outputs>>
    /\ UNCHANGED parser_fields

Optimize ==
    /\ pc = "optimize"
    /\ pc' = "asm"
    /\ UNCHANGED <<input_file, target, run, emits, err, fields, locals,
                   output_file, outputs>>
    /\ UNCHANGED parser_fields

\* generate_asm with the file write inside the loop: the lines emitted so far
\* reach the file even when a later node raises
GenerateAsmWritingEarly ==
    /\ pc = "asm" \/ (pc = "done" /\ emits < MaxEmits)
    /\ LET r == GenerateAsmOf(target, ir, label_count)
       IN  /\ asm_lines' = r.asm_lines
           /\ label_count' = r.label_count
           /\ err' = r.err
           /\ pc' = IF r.err # "" THEN "failed" ELSE "done"
           /\ emits' = IF r.err # "" THEN emits ELSE emits + 1
           /\ output_file' = <<JoinNl(r.asm_lines)>>
           /\ outputs' = Append(outputs,
                                [run |-> run, emit |-> emits + 1,
                                 text |-> JoinNl(r.asm_lines)])
    /\ UNCHANGED <<input_file, target, run, source, tokens, ast, labels,
                   macros, ir, locals>>
    /\ UNCHANGED parser_fields

\* generate_asm: the driver's call, or a further call on the same instance
\* once the first has returned.  The file is written after the loop.
GenerateAsm ==
    /\ pc = "asm" \/ (pc = "done" /\ emits < MaxEmits)
    /\ LET r == GenerateAsmOf(target, ir, label_count)
       IN  /\ asm_lines' = r.asm_lines
           /\ label_count' = r.label_count
           /\ err' = r.err
           /\ IF r.err # ""
              THEN /\ pc' = "failed"
                   /\ UNCHANGED <<emits, output_file, outputs>>
              ELSE /\ pc' = "done"
                   /\ emits' = emits + 1
                   /\ output_file' = <<JoinNl(r.asm_lines)>>
                   /\ outputs' = Append(outputs,
                                        [run |-> run, emit |-> emits + 1,
                                         text |-> JoinNl(r.asm_lines)])
    /\ UNCHANGED <<input_file, target, run, source, tokens, ast, labels,
                   macros, ir, locals>>
    /\ UNCHANGED parser_fields

\* Construct with label_count held outside the instance, so that the new
\* instance continues the numbering of the old one.
ConstructSharingCount ==
    /\ pc = "failed" \/ (pc = "done" /\ emits = 1)
    /\ run < MaxRuns
    /\ run' = run + 1
    /\ pc' = "lex"
    /\ emits' = 0
    /\ err' = ""
    /\ source' = <<>>
    /\ tokens' = <<>>
    /\ ast' = <<>>
    /\ labels' = EmptyDict
    /\ macros' = EmptyDict
    /\ label_count' = label_count
    /\ asm_lines' = <<>>
    /\ ir' = <<>>
    /\ pi' = 1
    /\ indent_stack' = <<0>>
    /\ current_macro' = <<>>
    /\ UNCHANGED <<input_file, target, output_file, outputs>>
    /\ UNCHANGED parser_fields

\* A further run of the driver on the same input: a new process with a
\* newly constructed ParrotCompiler, started once the previous process has
\* ended, by an exception or after the driver's one generate_asm call.
Construct ==
    /\ pc = "failed" \/ (pc = "done" /\ emits = 1)
    /\ run < MaxRuns
    /\ run' = run + 1
    /\ pc' = "lex"
    /\ emits' = 0
    /\ err' = ""
    /\ source' = <<>>
    /\ tokens' = <<>>
    /\ ast' = <<>>
    /\ labels' = EmptyDict
    /\ macros' = EmptyDict
    /\ label_count' = 0
    /\ asm_lines' = <<>>
    /\ ir' = <<>>
    /\ pi' = 1
    /\ indent_stack' = <<0>>
    /\ current_macro' = <<>>
    /\ UNCHANGED <<input_file, target, output_file, outputs>>
    /\ UNCHANGED parser_fields

Next ==
    \/ Lex
    \/ ParseBegin
    \/ ParseLine
    \/ ParseEnd
    \/ SemanticCheck
    \/ GenerateIr
    \/ Optimize
    \/ GenerateAsm
    \/ Construct

Spec == Init /\ [][Next]_vars

SpecFlyto == InitFlyto /\ [][Next]_vars

SpecEmit == InitEmit /\ [][Next]_vars

SpecRuns == InitRuns /\ [][Next]_vars

SpecIndent == InitIndent /\ [][Next]_vars

SpecBackends == InitBackends /\ [][Next]_vars

SpecLabels == InitLabels /\ [][Next]_vars

SpecExample == InitExample /\ [][Next]_vars

(***************************************************************************)
(* compile_parrot: tokenize, ParrotParser.parse (first_pass, then the loop *)
(* of parse_statement calls), CodeGenerator.generate and the write of the  *)
(* C text.  self.labels is a set here; code_blocks is the variable ast, as *)
(* compile_parrot names it; os.name is "nt" when target is "windows".      *)
(***************************************************************************)
InitTokens(texts, targets) ==
    /\ input_file \in texts
    /\ target \in targets
    /\ pc = "tokenize"
    /\ run = 1
    /\ emits = 0
    /\ err = ""
    /\ source = <<>>
    /\ tokens = <<>>
    /\ ast = <<>>
    /\ labels = {}
    /\ macros = EmptyDict
    /\ label_count = 0
    /\ asm_lines = <<>>
    /\ ir = <<>>
    /\ pi = 1
    /\ indent_stack = <<0>>
    /\ current_macro = <<>>
    /\ output_file = <<>>
    /\ outputs = <<>>
    /\ ParserConstructed

\* lexer.tokenize(source_code) and ParrotParser(tokens)
Tokenize ==
    /\ pc = "tokenize"
    /\ LET r == TokenizeOf(input_file)
       IN  /\ err' = r.err
           /\ tokens' = r.tokens
           /\ pc' = IF r.err # "" THEN "failed" ELSE "first_pass"
    /\ UNCHANGED <<input_file, target, ast, labels, output_file, line_fields,
                   parser_fields>>

\* one iteration of first_pass's loop
FirstPassStep ==
    /\ pc = "first_pass"
    /\ fp_i < Len(tokens)
    /\ LET st == FirstPassIter(tokens, [i |-> fp_i, labels |-> labels,
                                        chirps |-> chirps, stomachs |-> stomachs])
       IN  /\ fp_i' = st.i
           /\ labels' = st.labels
           /\ chirps' = st.chirps
           /\ stomachs' = st.stomachs
    /\ UNCHANGED <<input_file, target, pc, err, tokens, ast, output_file,
                   line_fields, current, code>>

\* first_pass returns
FirstPassEnd ==
    /\ pc = "first_pass"
    /\ fp_i >= Len(tokens)
    /\ pc' = "statements"
    /\ UNCHANGED <<input_file, target, err, tokens, ast, labels, output_file,
                   line_fields, parser_fields>>

\* one iteration of parse's loop: a call of parse_statement
ParseStatement ==
    /\ pc = "statements"
    /\ current < Len(tokens)
    /\ LET r == ParseStatementOf(tokens, current, chirps)
       IN  /\ current' = r.current
           /\ err' = r.err
           /\ pc' = IF r.err # "" THEN "failed" ELSE "statements"
           /\ ast' = IF r.statement # <<>> THEN Append(ast, r.statement[1]) ELSE ast
    /\ UNCHANGED <<input_file, target, tokens, labels, output_file, line_fields,
                   fp_i, chirps, stomachs, code>>

\* is_at_end(): parse returns code_blocks
ParseReturn ==
    /\ pc = "statements"
    /\ current >= Len(tokens)
    /\ pc' = "generate"
    /\ UNCHANGED <<input_file, target, err, tokens, ast, labels, output_file,
                   line_fields, parser_fields>>

\* CodeGenerator(ast, parser.stomachs).generate() and the write of c_code
Generate ==
    /\ pc = "generate"
    /\ code' = GenerateCode(IF target = "windows" THEN "nt" ELSE "posix", ast, stomachs)
    /\ output_file' = <<JoinNl(code')>>
    /\ pc' = "done"
    /\ UNCHANGED <<input_file, target, err, tokens, ast, labels, line_fields,
                   fp_i, current, chirps, stomachs>>

NextTokens ==
    \/ Tokenize
    \/ FirstPassStep
    \/ FirstPassEnd
    \/ ParseStatement
    \/ ParseReturn
    \/ Generate

InitComments == InitTokens(Texts(LinesComments, MaxLines), {"linux"})

InitOperands == InitTokens(Texts(LinesOperands, MaxOperandLines), {"linux"})

InitOperators == InitTokens(Texts(LinesOperators, MaxOperandLines), {"linux"})

InitTerminate == InitTokens(Texts(LinesTerminate, MaxOperandLines), {"linux"})

InitParsers == InitTokens(Texts(LinesParsers, MaxLines), {"linux"})

InitStomachs == InitTokens(Texts(LinesStomachs, MaxLines), Targets)

SpecComments == InitComments /\ [][NextTokens]_vars

SpecOperands == InitOperands /\ [][NextTokens]_vars

SpecOperators == InitOperators /\ [][NextTokens]_vars

SpecParsers == InitParsers /\ [][NextTokens]_vars

\* The compiler is one sequential process: while a call is enabled the
\* interpreter executes it.
SpecTerminate == InitTerminate /\ [][NextTokens]_vars /\ WF_vars(NextTokens)

SpecStomachs == InitStomachs /\ [][NextTokens]_vars

TypeOK ==
    /\ pc \in {"lex", "parse", "parse_loop", "semantic", "ir", "optimize", "asm",
               "done", "failed",
               "tokenize", "first_pass", "statements", "generate"}
    /\ run \in 1..MaxRuns
    /\ emits \in 0..MaxEmits
    /\ label_count \in Nat
    /\ indent_stack # <<>>

(***************************************************************************)
(* Properties.                                                             *)
(***************************************************************************)
\* generate_ir has returned on the current instance
IrBuilt == pc \in {"optimize", "asm", "done"}

MacroCalls(top, table) == {i \in 1..Len(top) : top[i].instr \in DOMAIN table}

\* The lines of the input that reach the parser, as word lists.
InputParts == [i \in DOMAIN LexOf(input_file) |-> Split(Strip(LexOf(input_file)[i]))]

\* C1: when no top-level instruction's opcode is a key of the macro table,
\* the flat IR generate_ir builds is the top-level sequence itself: the
\* same instructions in the same order.
C1_ExpansionIdentity ==
    (IrBuilt /\ MacroCalls(ast, macros) = {}) => ir = ast

C1_Witness ==
    /\ IrBuilt
    /\ MacroCalls(ast, macros) = {}
    /\ DOMAIN macros # {}
    /\ Len(ast) >= 2
    /\ ast[1] # ast[2]
    /\ ir = ast

\* C2: when exactly one top-level instruction, at position i, is a macro
\* call, the flat IR is the instructions before i, then the macro's body
\* in order, then the instructions after i; its length is the top-level
\* length minus one plus the length of the body.
C2_ExpansionSubstitution ==
    (IrBuilt /\ Cardinality(MacroCalls(ast, macros)) = 1) =>
        LET i == CHOOSE k \in MacroCalls(ast, macros) : TRUE
            body == macros[ast[i].instr]
        IN  /\ ir = SubSeq(ast, 1, i - 1) \o body \o SubSeq(ast, i + 1, Len(ast))
            /\ Len(ir) = (Len(ast) - 1) + Len(body)

C2_Witness ==
    /\ IrBuilt
    /\ Cardinality(MacroCalls(ast, macros)) = 1
    /\ \E i \in MacroCalls(ast, macros) :
          /\ Len(macros[ast[i].instr]) = 2
          /\ \A k \in 1..2 : Is(macros[ast[i].instr][k].instr, "peck")
    /\ Len(ir) = Len(ast) + 1

\* C3: a program containing a flyto line without operands never gets past
\* semantic_check (the run fails there with the semantic error) and no
\* target text is written for it.
HasBareFlyto ==
    \E i \in DOMAIN InputParts :
        Len(InputParts[i]) = 1 /\ Is(InputParts[i][1], "flyto")

C3_BareFlytoRejected ==
    HasBareFlyto =>
        /\ output_file = <<>>
        /\ pc \in {"ir", "optimize", "asm", "done", "failed"} =>
               (pc = "failed" /\ err = "SyntaxError")

\* C4: once generate_ir has returned, every label of the label table maps
\* to an index of the flat IR, and the instruction at that index is the
\* perch that defines the label.
C4_LabelsIndexFlatIr ==
    IrBuilt =>
        \A l \in DOMAIN labels :
            /\ 0 <= labels[l]
            /\ labels[l] < Len(ir)
            /\ Is(ir[labels[l] + 1].instr, "perch")
            /\ ir[labels[l] + 1].args # <<>>
            /\ RStripCh(ir[labels[l] + 1].args[1], ":") = l

\* C5: a source with two perch lines that name the same label is rejected:
\* its run does not get past parse.
HasDuplicatePerch ==
    \E i, j \in DOMAIN InputParts :
        /\ i < j
        /\ Len(InputParts[i]) >= 2 /\ Is(InputParts[i][1], "perch")
        /\ Len(InputParts[j]) >= 2 /\ Is(InputParts[j][1], "perch")
        /\ RStripCh(InputParts[i][2], ":") = RStripCh(InputParts[j][2], ":")

C5_DuplicateLabelRejected ==
    HasDuplicatePerch => pc \notin {"semantic", "ir", "optimize", "asm", "done"}

\* C6: when the body of a macro called at top level holds a call to
\* another macro, the run reports it: it does not complete without an
\* error, the nested call dropped from the emitted text.
NestedCalls ==
    {i \in MacroCalls(ast, macros) :
        \E k \in 1..Len(macros[ast[i].instr]) :
            macros[ast[i].instr][k].instr \in (DOMAIN macros) \ {ast[i].instr}}

C6_NestedCallDiagnosed ==
    (pc = "done" /\ err = "") => NestedCalls = {}

\* C7: two runs of the whole pipeline on the same source, each on its own
\* new compiler instance, write the same target text.
C7_RunsDeterministic ==
    \A i, j \in DOMAIN outputs :
        (outputs[i].emit = 1 /\ outputs[j].emit = 1) =>
            outputs[i].text = outputs[j].text

C7_Witness ==
    /\ run = 2
    /\ pc = "done"
    /\ label_count > 0
    /\ \E i, j \in DOMAIN outputs :
          /\ outputs[i].run = 1 /\ outputs[i].emit = 1
          /\ outputs[j].run = 2 /\ outputs[j].emit = 1
          /\ outputs[i].text = outputs[j].text

\* C8: two generate_asm calls on the same instance with the same flat IR
\* write the same text.
C8_EmissionRepeatable ==
    \A i, j \in DOMAIN outputs :
        outputs[i].run = outputs[j].run => outputs[i].text = outputs[j].text

\* C9: generate_asm never raises on a flat IR that passed semantic_check
\* and holds supported opcodes only.  (asm_lines is non-empty exactly when
\* generate_asm has started on the current instance.)
C9_EmissionTotal ==
    (asm_lines # <<>> /\ \A k \in 1..Len(ir) : Recognized(ir[k])) => pc # "failed"

\* C10: generate_asm leaves the same lines, label_count and outcome as it
\* would for the flat IR without the instructions whose opcode it does not
\* recognize: such an instruction adds no line and raises nothing.
C10_UnrecognizedSkipped ==
    [][(pc \in {"asm", "done"} /\ pc' \in {"done", "failed"}) =>
         LET r == GenerateAsmOf(target, SelectSeq(ir, Recognized), label_count)
         IN  /\ asm_lines' = r.asm_lines
             /\ label_count' = r.label_count
             /\ err' = r.err]_vars

C10_Witness ==
    /\ pc = "done"
    /\ \E k \in 1..Len(ir) : ~Recognized(ir[k])
    /\ \E k \in 1..Len(ir) : Is(ir[k].instr, "mimic")
    /\ \E k \in 1..Len(ir) : Is(ir[k].instr, "flap")
    /\ Len(asm_lines) = Len(Prologue(target)) + 1 + Len(MimicLines(target, "", <<>>)) + 3

\* C11: for the six-line example the Linux backend emits, after the
\* prologue: the `.start:` label, two `inc byte [rsi]`, the compare
\* sequence ending in `jl .start`, the write syscall sequence of the "done"
\* string constant, and the exit syscall sequence last; the constant is
\* among the data lines and `jl .start` is the only jump.
ExampleBody ==
    << ".start:",
       "    inc byte [rsi]",
       "    inc byte [rsi]",
       "    movzx rax, byte [rsi]",
       "    cmp rax, 5",
       "    jl .start",
       "    mov rax, 1",
       "    mov rdi, 1",
       "    mov rsi, str_0",
       "    mov rdx, 5",
       "    syscall",
       "    mov rax, 60",
       "    xor rdi, rdi",
       "    syscall" >>

C11_ExampleEmission ==
    (input_file = ExampleSource /\ target = "linux" /\ pc = "done" /\ emits = 1) =>
        /\ Len(asm_lines) = Len(Prologue("linux")) + 1 + Len(ExampleBody)
        /\ SubSeq(asm_lines, Len(Prologue("linux")) + 2, Len(asm_lines)) = ExampleBody
        /\ \E k \in 1..Len(asm_lines) : asm_lines[k] = "str_0 db \"done\", 10, 0"

\* C18: generate_ir flattens exactly one level.  Each top-level macro call
\* is replaced by the stored body, copied as it stands (a body instruction
\* whose opcode is a macro name stays in the flat IR unexpanded), every
\* other top-level instruction is copied; the flat IR length is the sum over
\* the top-level instructions of body length for a call and 1 otherwise.
FlatWidth(node) == IF node.instr \in DOMAIN macros THEN Len(macros[node.instr]) ELSE 1

RECURSIVE FlatOffset(_)
FlatOffset(i) == IF i = 0 THEN 0 ELSE FlatOffset(i - 1) + FlatWidth(ast[i])

C18_OneLevelFlattening ==
    IrBuilt =>
        /\ Len(ir) = FlatOffset(Len(ast))
        /\ \A i \in 1..Len(ast) :
              SubSeq(ir, FlatOffset(i - 1) + 1, FlatOffset(i)) =
                  IF ast[i].instr \in DOMAIN macros THEN macros[ast[i].instr]
                  ELSE <<ast[i]>>

C18_Witness ==
    /\ IrBuilt
    /\ \E i \in MacroCalls(ast, macros) :
          \E k \in 1..Len(macros[ast[i].instr]) :
              /\ macros[ast[i].instr][k].instr \in DOMAIN macros
              /\ macros[ast[i].instr][k].instr # ast[i].instr
              /\ ir[FlatOffset(i - 1) + k] = macros[ast[i].instr][k]

\* C15: a failure ends the run: from a failed state the only step is the
\* start of a new run, a step that fails writes nothing, and the output
\* file is written only by a step that has emitted the whole flat IR
\* without error (in the token-oriented compiler: that has generated the C
\* text after the parse of all tokens), with the text of that emission.
C15_FatalAbort ==
    [][ /\ pc = "failed" =>
              (pc' = "lex" /\ run' = run + 1 /\ asm_lines' = <<>> /\
               output_file' = output_file /\ outputs' = outputs)
        /\ pc' = "failed" =>
              (err' # "" /\ output_file' = output_file /\ outputs' = outputs)
        /\ (output_file' # output_file \/ outputs' # outputs) =>
              \/ /\ pc \in {"asm", "done"}
                 /\ pc' = "done"
                 /\ err' = ""
                 /\ GenerateAsmOf(target, ir, label_count).err = ""
                 /\ asm_lines' = GenerateAsmOf(target, ir, label_count).asm_lines
                 /\ output_file' = <<JoinNl(asm_lines')>>
              \/ /\ pc = "generate"
                 /\ pc' = "done"
                 /\ err' = ""
                 /\ current >= Len(tokens)
                 /\ output_file' = <<JoinNl(code')>>
      ]_vars

\* emission has failed after emitting some lines, and nothing was written
C15_Witness ==
    /\ pc = "failed"
    /\ err \in {"IndexError", "ValueError", "KeyError"}
    /\ Len(asm_lines) > Len(Prologue(target))
    /\ output_file = <<>>
    /\ outputs = <<>>

\* the step is an iteration of parse's loop that raised nothing
ParsedLine == pc = "parse_loop" /\ pi <= Len(tokens) /\ pi' = pi + 1

LineParts(k) == Split(Strip(tokens[k]))

IsChirpLine(k) == Is(LineParts(k)[1], "chirp")

LineNode(k) == Node(LineParts(k)[1], Tail(LineParts(k)))

\* C17: when a non-chirp line is indented less than the top of the indent
\* stack, the frames above that width are popped (all of them, and no frame
\* at or below it), the current macro is cleared and the line is appended
\* to the top-level sequence; and while no macro is current every non-chirp
\* line is appended to the top-level sequence.
C17_DedentRule ==
    [][ (ParsedLine /\ ~IsChirpLine(pi)) =>
            LET indent == IndentOf(tokens[pi])
                n == Len(indent_stack')
            IN  /\ indent < Top(indent_stack) =>
                      /\ n < Len(indent_stack)
                      /\ indent_stack' = SubSeq(indent_stack, 1, n)
                      /\ Top(indent_stack') <= indent
                      /\ \A k \in (n + 1)..Len(indent_stack) : indent_stack[k] > indent
                      /\ current_macro' = <<>>
                      /\ ast' = Append(ast, LineNode(pi))
                      /\ macros' = macros
                /\ current_macro = <<>> =>
                      /\ current_macro' = <<>>
                      /\ ast' = Append(ast, LineNode(pi))
                      /\ macros' = macros
      ]_vars

\* a dedent has popped two frames at once and the line is at top level
C17_Witness ==
    /\ pc = "parse_loop"
    /\ pi > 4
    /\ IsChirpLine(1)
    /\ IndentOf(tokens[2]) = 2
    /\ IndentOf(tokens[3]) = 4
    /\ IndentOf(tokens[4]) = 0
    /\ ~IsChirpLine(4)
    /\ indent_stack = <<0, 0>>
    /\ current_macro = <<>>
    /\ ast = <<LineNode(4)>>

\* C16: after a `chirp name:` line at indent width w, a following line goes
\* into that macro's body exactly while its width is above w; the first
\* following line at width w or below goes to the top-level sequence.
\* Stated for the step that parses line pi, when k is the last chirp line
\* before it and every line between them is indented deeper than w.
C16_MacroScope ==
    [][ ParsedLine =>
            \A k \in 1..(pi - 1) :
                ( /\ IsChirpLine(k)
                  /\ \A j \in (k + 1)..pi : ~IsChirpLine(j)
                  /\ \A j \in (k + 1)..(pi - 1) : IndentOf(tokens[j]) > IndentOf(tokens[k]) )
                =>
                LET name == RStripCh(LineParts(k)[2], ":")
                IN  IF IndentOf(tokens[pi]) > IndentOf(tokens[k])
                    THEN /\ macros' = [macros EXCEPT ![name] = Append(@, LineNode(pi))]
                         /\ ast' = ast
                    ELSE /\ ast' = Append(ast, LineNode(pi))
                         /\ macros' = macros
      ]_vars

\* the number of double quotes in a line
RECURSIVE QuoteCount(_)
QuoteCount(line) ==
    IF line = <<>> THEN 0
    ELSE (IF Head(line) = "\"" THEN 1 ELSE 0) + QuoteCount(Tail(line))

\* some line opens a string with a double quote and never closes it
HasOpenString ==
    \E i \in 1..Len(input_file) : QuoteCount(input_file[i]) % 2 = 1

\* C12: a source with an unterminated string literal fails in the lexer:
\* no parse step is ever taken for it and no target text is written.
C12_OpenStringFatal ==
    HasOpenString =>
        /\ pc \in {"lex", "failed"}
        /\ pc = "failed" => tokens = <<>>
        /\ output_file = <<>>

\* tokenize has returned or exited
Tokenized == pc \in {"first_pass", "statements", "generate", "done", "failed"}

\* a line whose first non-blank characters are `:>`
IsLineComment(line) == StartsWith(LStrip(line), <<":", ">">>)

\* a token sequence without its line numbers
Unnumbered(toks) == [k \in 1..Len(toks) |-> [toks[k] EXCEPT !.line_number = 0]]

\* C20: the token lexer discards line comments without side effect: the
\* token sequence of a source is, line numbers apart, the token sequence of
\* the same source with its `:>` lines removed, whatever follows the
\* marker, and the one is lexed without error exactly when the other is.
C20_LineCommentsDiscarded ==
    (Tokenized /\ pc # "failed") =>
        LET without == TokenizeOf(SelectSeq(input_file, LAMBDA l : ~IsLineComment(l)))
        IN  /\ without.err = ""
            /\ Unnumbered(tokens) = Unnumbered(without.tokens)

\* the operands the opcode of a statement node requires are all present
OperandsPresent(node) ==
    CASE node.type = "perch" -> node.name # None
      [] node.type = "flyto" -> node.target # None
      [] node.type = "flap" ->
            node.target # None /\ node.left # None /\ node.op # None /\ node.right # None
      [] node.type \in {"add", "sub"} -> node.left # None /\ node.right # None
      [] node.type = "mimic" -> node.text # None
      [] node.type = "stomach" -> node.name # None
      [] OTHER -> TRUE

\* C19: the token-oriented parser never returns an instruction with an
\* absent required operand: a perch, flyto, flap, add, sub, mimic or
\* stomach whose operand is missing or of the wrong token type ends the
\* parse with an error instead.
C19_MissingOperandFatal ==
    \A k \in 1..Len(ast) : OperandsPresent(ast[k])

\* the result of the line-oriented lex and parse on the input
LineParse == ParseFrom(ParseStart(EmptyDict, EmptyDict), LexOf(input_file))

\* every chirp line stands at width 0 and is followed by an indented body
\* line, every indented line continues the body of a chirp, and every
\* other line starts with an opcode keyword or the name of a chirp the
\* source defines
WellFormed ==
    LET lines == input_file
        words(k) == Split(Strip(lines[k]))
        indented(k) == IndentOf(lines[k]) > 0
        chirp(k) == Is(words(k)[1], "chirp")
    IN  \A k \in 1..Len(lines) :
            /\ chirp(k) => (~indented(k) /\ k < Len(lines) /\ indented(k + 1))
            /\ indented(k) => (k > 1 /\ (chirp(k - 1) \/ indented(k - 1)))
            /\ ~chirp(k) =>
                  \/ Str(words(k)[1]) \in DOMAIN keywords
                  \/ \E j \in 1..Len(lines) :
                        chirp(j) /\ RStripCh(words(j)[2], ":") = words(k)[1]

\* the opcode words of a token-oriented macro body: its tokens but for the
\* colon that ends the chirp line
BodyWords(body) ==
    LET instrs == SelectSeq(body, LAMBDA t : ~(t.type = "IDENTIFIER" /\ t.value = <<":">>))
    IN  [k \in 1..Len(instrs) |-> Str(instrs[k].value)]

\* C13: for a well-formed source both parsers give the same program: the
\* same sequence of top-level opcodes (a macro call counting as the name
\* called) and the same macro table, each name with the same body.
C13_ParsersAgree ==
    (pc \in {"generate", "done"} /\ WellFormed /\ LineParse.err = "") =>
        /\ [k \in 1..Len(ast) |-> IF ast[k].type = "chirp_call" THEN Str(ast[k].name[2])
                                  ELSE ast[k].type]
             = [k \in 1..Len(LineParse.ast) |-> Str(LineParse.ast[k].instr)]
        /\ {Str(n) : n \in DOMAIN chirps} = {Str(n) : n \in DOMAIN LineParse.macros}
        /\ \A n \in DOMAIN chirps :
              n \in DOMAIN LineParse.macros =>
                  BodyWords(chirps[n]) =
                      [k \in 1..Len(LineParse.macros[n]) |-> Str(LineParse.macros[n][k].instr)]

\* the words of input line k
InputWords(k) == Split(Strip(input_file[k]))

\* input line k is `stomach name` or `stomach size name`
IsStomachLine(k) ==
    Is(InputWords(k)[1], "stomach") /\ Len(InputWords(k)) \in {2, 3}

\* the global array the declaration on line k asks for
DeclaredArray(k) ==
    LET words == InputWords(k)
    IN  "uint8_t stomach_" \o Str(words[Len(words)]) \o "["
            \o (IF Len(words) = 3 THEN Str(words[2]) ELSE "1024") \o "] = {0};"

\* input line k is `devour into name "..."`
IsDevourInto(k) ==
    /\ Len(InputWords(k)) = 4
    /\ Is(InputWords(k)[1], "devour")
    /\ Is(InputWords(k)[2], "into")

\* C14: in the C output every stomach declaration of the source, wherever
\* it stands, has exactly one global array stomach_<name> of the declared
\* size, or of 1024 bytes when no size is given, and a devour into a name
\* declared before it is a call on that array.
C14_StomachArrays ==
    pc = "done" =>
        /\ \A k \in 1..Len(input_file) :
              IsStomachLine(k) =>
                  Cardinality({j \in 1..Len(code) : code[j] = DeclaredArray(k)}) = 1
        /\ \A k \in 1..Len(input_file) :
              (IsDevourInto(k) /\ \E d \in 1..(k - 1) :
                    IsStomachLine(d) /\
                    InputWords(d)[Len(InputWords(d))] = InputWords(k)[3])
              => \E j \in 1..Len(code) :
                    code[j] = "    devour(stomach_" \o Str(InputWords(k)[3]) \o ", "
                                  \o Str(InputWords(k)[4]) \o ");"

\* C25: in the line-oriented parser the indent stack is never empty and
\* its bottom frame is always 0, whatever the indent widths of the lines:
\* the pop loop stops at the latest on the bottom frame, so the stack top
\* can always be read.
C25_IndentStackBottom ==
    /\ indent_stack # <<>>
    /\ indent_stack[1] = 0
    /\ \A k \in 1..Len(indent_stack) : indent_stack[k] >= 0

\* a dedent from width 4 to width 0 has popped down to the bottom frame
C25_Witness ==
    /\ pc = "parse_loop"
    /\ pi = 4
    /\ IndentOf(tokens[1]) = 2
    /\ IndentOf(tokens[2]) = 4
    /\ IndentOf(tokens[3]) = 0
    /\ \A k \in 1..3 : ~IsChirpLine(k)
    /\ indent_stack = <<0>>

\* the maximal runs of the characters `<`, `>`, `=`, `!` in a line, in order
RECURSIVE OperatorRuns(_, _, _)
OperatorRuns(line, run_, acc) ==
    IF line = <<>> THEN (IF run_ = <<>> THEN acc ELSE Append(acc, run_))
    ELSE IF Head(line) \in {"<", ">", "=", "!"}
         THEN OperatorRuns(Tail(line), Append(run_, Head(line)), acc)
         ELSE OperatorRuns(Tail(line), <<>>, IF run_ = <<>> THEN acc ELSE Append(acc, run_))

RECURSIVE InputRuns(_)
InputRuns(lines) ==
    IF lines = <<>> THEN <<>>
    ELSE OperatorRuns(Head(lines), <<>>, <<>>) \o InputRuns(Tail(lines))

\* the comparison operators of the language, as token values
ComparisonOps ==
    {<<">">>, <<"<">>, <<"=", "=">>, <<"!", "=">>, <<">", "=">>, <<"<", "=">>}

\* C21: every OPERATOR token carries one of the six comparison operators,
\* a source `=` or `==` giving `==`; a source with any other run of the
\* characters `<`, `>`, `=`, `!` fails in the lexer and yields no tokens.
C21_OperatorLexing ==
    Tokenized =>
        LET runs == InputRuns(input_file)
            ops == SelectSeq(tokens, LAMBDA t : t.type = "OPERATOR")
            written(r) == IF r = <<"=">> THEN <<"=", "=">> ELSE r
        IN  /\ \A k \in 1..Len(ops) : ops[k].value \in ComparisonOps
            /\ IF \A k \in 1..Len(runs) : written(runs[k]) \in ComparisonOps
               THEN /\ pc # "failed"
                    /\ [k \in 1..Len(ops) |-> ops[k].value]
                         = [k \in 1..Len(runs) |-> written(runs[k])]
               ELSE pc = "failed" /\ tokens = <<>>

\* the opcodes that involve no I/O
NonIoOpcodes ==
    {"peck", "scratch", "hop", "hopback", "perch", "flyto", "flap", "add", "sub",
     "preen", "poop"}

\* the lines of an emitted text after the target's prologue
AfterPrologue(t, lines) == SubSeq(lines, Len(Prologue(t)) + 1, Len(lines))

\* C22: for a flat IR made only of opcodes without I/O, the Linux and the
\* Windows backend emit the same lines after their prologues and raise the
\* same exception, and the text a finished generate_asm holds is that one.
C22_BackendsAgree ==
    (\A k \in 1..Len(ir) : Str(ir[k].instr) \in NonIoOpcodes) =>
        LET lin == GenerateAsmOf("linux", ir, label_count)
            win == GenerateAsmOf("windows", ir, label_count)
        IN  /\ AfterPrologue("linux", lin.asm_lines) = AfterPrologue("windows", win.asm_lines)
            /\ lin.err = win.err
            /\ pc = "done" =>
                  AfterPrologue(target, asm_lines) = AfterPrologue("linux", lin.asm_lines)

\* the Windows backend has emitted a perch label and a flap branching to it
C22_Witness ==
    /\ pc = "done"
    /\ target = "windows"
    /\ Len(ir) = 2
    /\ Is(ir[1].instr, "perch")
    /\ Is(ir[2].instr, "flap")
    /\ AfterPrologue("windows", asm_lines)
         = <<".a::", "    movzx rax, byte [rsi]", "    cmp rax, 0", "    je .a">>

\* the lines that load rsi with the address of a string constant
StringLoads == {"    mov rsi, str_" \o ToString(k) : k \in 0..label_count}

\* the lines that give rsi a new value
RsiWrites == {"    inc rsi", "    dec rsi", "    mov rsi, tape"} \cup StringLoads

\* the lines that read or write the byte rsi points to
TapeAccesses ==
    {"    inc byte [rsi]", "    dec byte [rsi]", "    mov byte [rsi], 0",
     "    mov al, [rsi]", "    movzx rax, byte [rsi]"}

\* the instruction lines the Linux backend emits for one node
LinuxLinesOf(node) ==
    LET r == EmitNode("linux", node, Prologue("linux"), 0)
        n == Len(r.asm_lines) - Len(Prologue("linux")) - r.label_count
    IN  SubSeq(r.asm_lines, Len(r.asm_lines) - n + 1, Len(r.asm_lines))

\* the index of the last line before k that loads rsi with an address
RECURSIVE LastLoad(_, _)
LastLoad(lines, k) ==
    IF k = 1 THEN 0
    ELSE IF lines[k - 1] \in {"    mov rsi, tape"} \cup StringLoads THEN k - 1
    ELSE LastLoad(lines, k - 1)

\* C23: in a finished Linux text only hop, hopback and preen emit a line
\* that gives rsi a new value, and every line that accesses the byte at rsi
\* comes after a load of the tape address with no load of a string constant
\* in between.
C23_MimicKeepsRsi ==
    (pc = "done" /\ target = "linux") =>
        /\ \A k \in 1..Len(ir) :
              Str(ir[k].instr) \notin {"hop", "hopback", "preen"} =>
                  \A j \in 1..Len(LinuxLinesOf(ir[k])) : LinuxLinesOf(ir[k])[j] \notin RsiWrites
        /\ \A k \in 1..Len(asm_lines) :
              asm_lines[k] \in TapeAccesses =>
                  /\ LastLoad(asm_lines, k) # 0
                  /\ asm_lines[LastLoad(asm_lines, k)] = "    mov rsi, tape"

\* the perch nodes of the IR carry pairwise distinct names
DistinctPerches ==
    \A i, j \in 1..Len(ir) :
        (i # j /\ Is(ir[i].instr, "perch") /\ Is(ir[j].instr, "perch")) =>
            ir[i].args # ir[j].args

\* the label names an emitted text can define: perch labels, string
\* constants and the loop labels of regurgitate
LabelNames ==
    {"." \o Str(ir[k].args[1]) :
        k \in {i \in 1..Len(ir) : Is(ir[i].instr, "perch") /\ ir[i].args # <<>>}}
    \cup {"str_" \o ToString(k) : k \in 0..label_count}
    \cup {".reg_loop", ".reg_end", "reg_loop", "reg_end"}

\* the strings of the mimic nodes of the IR
MimicStrings ==
    {Str(StripCh(JoinSp(ir[k].args), "\"")) : k \in {i \in 1..Len(ir) : Is(ir[i].instr, "mimic")}}

\* line defines the label name, as a code label or as a data constant
Defines(line, name) ==
    \/ line = name \o ":"
    \/ \E string \in MimicStrings : line = name \o " db \"" \o string \o "\", 10, 0"

\* C24: in an emitted text of an IR with pairwise distinct perch names, no
\* label (perch label, str_<n> constant, regurgitate loop label) is
\* defined by more than one line.
C24_UniqueLabels ==
    (asm_lines # <<>> /\ DistinctPerches) =>
        \A name \in LabelNames :
            \A i, j \in 1..Len(asm_lines) :
                (Defines(asm_lines[i], name) /\ Defines(asm_lines[j], name)) => i = j

\* a loop iteration of first_pass raises its index, a returning call of
\* parse_statement raises the cursor
ParserProgress ==
    /\ (pc = "first_pass" /\ pc' = "first_pass") => fp_i' > fp_i
    /\ (pc = "statements" /\ pc' = "statements") => current' > current

\* C26 as stated: every first_pass iteration and every parse_statement call
\* advances, and a parse that has started always reaches the end of the
\* tokens and returns.
C26_ReachesEnd ==
    /\ [][ParserProgress]_vars
    /\ (pc = "first_pass") ~> (pc = "generate" /\ current >= Len(tokens))

\* C26 amended: every first_pass iteration and every returning
\* parse_statement call advances, and a parse that has started always ends,
\* by reaching the end of the tokens or by the exit of a parser error.
C26_Terminates ==
    /\ [][ParserProgress]_vars
    /\ (pc = "first_pass") ~>
          \/ pc = "generate" /\ current >= Len(tokens)
          \/ pc = "failed" /\ err # ""

\* parse has returned after skipping tokens that start no statement
C26_Witness ==
    /\ pc = "generate"
    /\ Len(tokens) = 2
    /\ tokens[1].type = "STRING"
    /\ tokens[2].type = "CHIRP"
    /\ current = 2
    /\ fp_i = 2
    /\ ast = <<>>

====
